---- MODULE Spec2Model ----
(***************************************************************************)
(* Approval workflow (ApprovalEngine), allocation engine (AllocationEngine) *)
(* and housekeeping jobs (BackgroundJobService) of the event/resource       *)
(* management system, over one shared transactional store.                 *)
(*                                                                         *)
(* Time is counted in units of 24 hours.  Venue names are modelled by      *)
(* their rank in ascending name order.  Rows returned by findMany are      *)
(* taken in the fixed order of UserList / resourceRequests.                *)
(***************************************************************************)
EXTENDS Integers, Sequences, FiniteSets, TLC

\* ------------------------------------------------------------------ bounds
MaxTime == 3
MaxAudit == 1
MaxExecutions == 3
MaxOver == 2

\* ------------------------------------------------------- program constants
StaleAfter == 1

Null == "null"
System == "system"
NoPref == "none"
NoEvent == "e0"
Ghost == "u0"

\* ------------------------------------------------------------- static data
Users ==
  [ c1 |-> [role |-> "COORDINATOR",        schoolId |-> "s1", departmentId |-> "d1",  isActive |-> TRUE],
    h1 |-> [role |-> "HOD",                schoolId |-> "s1", departmentId |-> "d1",  isActive |-> TRUE],
    h2 |-> [role |-> "HOD",                schoolId |-> "s1", departmentId |-> "d2",  isActive |-> TRUE],
    n1 |-> [role |-> "DEAN",               schoolId |-> "s1", departmentId |-> Null,  isActive |-> TRUE],
    n2 |-> [role |-> "DEAN",               schoolId |-> "s2", departmentId |-> Null,  isActive |-> TRUE],
    n3 |-> [role |-> "DEAN",               schoolId |-> "s1", departmentId |-> Null,  isActive |-> FALSE],
    ih |-> [role |-> "INSTITUTIONAL_HEAD", schoolId |-> Null, departmentId |-> Null,  isActive |-> TRUE] ]

UserIds == DOMAIN Users

UserList == <<"c1", "h1", "h2", "n1", "n2", "n3", "ih">>

Events ==
  [ e1 |-> [coordinatorId |-> "c1", schoolId |-> "s1", departmentId |-> "d1",
            scheduleStart |-> 0, scheduleEnd |-> 2, participantCount |-> 50,
            venueTypePreference |-> NoPref, resourceRequests |-> <<"q1", "q4">>],
    e2 |-> [coordinatorId |-> "c1", schoolId |-> "s1", departmentId |-> "d1",
            scheduleStart |-> 1, scheduleEnd |-> 3, participantCount |-> 50,
            venueTypePreference |-> "hall", resourceRequests |-> <<"q2", "q3">>],
    e4 |-> [coordinatorId |-> "c1", schoolId |-> "s1", departmentId |-> "d1",
            scheduleStart |-> 1, scheduleEnd |-> 2, participantCount |-> 500,
            venueTypePreference |-> NoPref, resourceRequests |-> <<>>] ]

EventIds == DOMAIN Events

\* The events the requests are made for; e4, too large for every venue, is
\* only put to the allocation engine.
RequestedEvents == {"e1", "e2"}

Venues ==
  [ v1 |-> [name |-> 2, type |-> "hall", capacity |-> 60,  isActive |-> TRUE,  maintenanceMode |-> FALSE],
    v2 |-> [name |-> 1, type |-> "lab",  capacity |-> 100, isActive |-> TRUE,  maintenanceMode |-> FALSE],
    v3 |-> [name |-> 3, type |-> "hall", capacity |-> 60,  isActive |-> TRUE,  maintenanceMode |-> FALSE],
    v4 |-> [name |-> 4, type |-> "hall", capacity |-> 30,  isActive |-> TRUE,  maintenanceMode |-> FALSE],
    v5 |-> [name |-> 5, type |-> "hall", capacity |-> 200, isActive |-> FALSE, maintenanceMode |-> FALSE],
    v6 |-> [name |-> 0, type |-> "hall", capacity |-> 60,  isActive |-> TRUE,  maintenanceMode |-> TRUE] ]

VenueIds == DOMAIN Venues

Resources ==
  [ r1 |-> [totalQuantity |-> 3],
    r2 |-> [totalQuantity |-> 1] ]

ResourceIds == DOMAIN Resources

ResourceRequests ==
  [ q1 |-> [eventId |-> "e1", resourceId |-> "r1", quantityNeeded |-> 2],
    q4 |-> [eventId |-> "e1", resourceId |-> "r2", quantityNeeded |-> 1],
    q2 |-> [eventId |-> "e2", resourceId |-> "r1", quantityNeeded |-> 2],
    q3 |-> [eventId |-> "e2", resourceId |-> "r1", quantityNeeded |-> 1] ]

RequestIds == DOMAIN ResourceRequests

ApprovalStages ==
  {"DRAFT", "SUBMITTED", "HOD_APPROVED", "DEAN_APPROVED", "HEAD_APPROVED",
   "APPROVED", "REJECTED", "MODIFICATION_REQUIRED"}

ApprovalActions == {"SUBMITTED", "APPROVED", "REJECTED", "MODIFICATION_REQUIRED"}

CommentInputs == {"text"}

\* The callers and events the calls are made with: every active user on every
\* requested event, and one call each with an unknown user and with an
\* unknown event.
ActiveUsers == {u \in UserIds : Users[u].isActive}

SubmitInputs == (RequestedEvents \X {"c1", "h1"}) \cup {<<NoEvent, "c1">>}

ApprovalInputs == (ActiveUsers \X RequestedEvents) \cup {<<Ghost, "e1">>, <<"h1", NoEvent>>}

TxIds == {"t1", "t2"}

NoTx == [eventId |-> NoEvent]

\* ------------------------------------------------------------------- state
VARIABLES
  approvalStage,      \* Event.approvalStage
  status,             \* Event.status
  rejectionReason,    \* Event.rejectionReason
  approvalSteps,      \* ApprovalStep rows, per event, in insertion order
  notifications,      \* Notification rows, per event, in insertion order
  venueBookings,      \* VenueBooking rows
  resourceBookings,   \* ResourceBooking rows
  reqAllocated,       \* ResourceRequest.isAllocated
  availableQuantity,  \* Resource.availableQuantity (stored column)
  auditLog,           \* AuditLog rows, in insertion order
  now,                \* the clock
  txs,                \* allocateEvent transactions in progress
  last,               \* the call that made the last step, and its outcome
  jobs,               \* BackgroundJob rows
  workers,            \* the runs of processPendingJobs / processJob in progress
  rateLimitMap        \* the middleware's rateLimitMap

vars == <<approvalStage, status, rejectionReason, approvalSteps, notifications,
          venueBookings, resourceBookings, reqAllocated, availableQuantity,
          auditLog, now, txs, last, jobs, workers, rateLimitMap>>

eventVars == <<approvalStage, status, rejectionReason>>
serviceVars == <<jobs, workers, rateLimitMap>>
bookingVars == <<venueBookings, resourceBookings, reqAllocated>>

\* The store, as one value (what a transaction reads and writes).
DB ==
  [ approvalStage |-> approvalStage, status |-> status,
    rejectionReason |-> rejectionReason, approvalSteps |-> approvalSteps,
    notifications |-> notifications, venueBookings |-> venueBookings,
    resourceBookings |-> resourceBookings, reqAllocated |-> reqAllocated,
    availableQuantity |-> availableQuantity, auditLog |-> auditLog ]

\* prisma.$transaction(callback): the writes of a callback that returns are
\* committed, the writes of a callback that throws are rolled back.
Transaction(before, after, threw) == IF threw THEN before ELSE after

\* Row ids: the n-th row created for an event.
NextId(rows, e) ==
  LET used == {b.id[2] : b \in {r \in rows : r.eventId = e}}
  IN  <<e, IF used = {} THEN 1 ELSE 1 + (CHOOSE m \in used : \A k \in used : k <= m)>>

\* The overlap test with the comparisons made inclusive, so that intervals
\* that only touch count as overlapping.
OverlapsOrTouches(b, e) ==
  b.startTime <= Events[e].scheduleEnd /\ b.endTime >= Events[e].scheduleStart

\* startTime < event.scheduleEnd AND endTime > event.scheduleStart
Overlaps(b, e) ==
  b.startTime < Events[e].scheduleEnd /\ b.endTime > Events[e].scheduleStart

\* ------------------------------------------------------- allocation engine
CandidateVenueSet(e) ==
  { v \in VenueIds :
      /\ Venues[v].isActive
      /\ ~Venues[v].maintenanceMode
      /\ Venues[v].capacity >= Events[e].participantCount
      /\ (Events[e].venueTypePreference # NoPref
            => Venues[v].type = Events[e].venueTypePreference) }

\* The venue order with the names taken in descending order.
VenueBeforeNameDescending(a, b) ==
  \/ Venues[a].capacity < Venues[b].capacity
  \/ Venues[a].capacity = Venues[b].capacity /\ Venues[a].name > Venues[b].name

VenueBefore(a, b) ==
  \/ Venues[a].capacity < Venues[b].capacity
  \/ Venues[a].capacity = Venues[b].capacity /\ Venues[a].name < Venues[b].name

RECURSIVE OrderVenues(_)
OrderVenues(S) ==
  IF S = {} THEN <<>>
  ELSE LET first == CHOOSE v \in S : \A w \in S \ {v} : VenueBefore(v, w)
       IN  <<first>> \o OrderVenues(S \ {first})

CandidateVenues(e) == OrderVenues(CandidateVenueSet(e))

\* The conflict query without its status filter: provisional and cancelled
\* bookings block a venue as confirmed ones do.
ConflictingVenueBookingsOfAnyStatus(vb, v, e) ==
  { b \in vb : b.venueId = v /\ Overlaps(b, e) }

ConflictingVenueBookings(vb, v, e) ==
  { b \in vb : b.venueId = v /\ b.status = "confirmed" /\ Overlaps(b, e) }

FreeCandidates(vb, e) ==
  SelectSeq(CandidateVenues(e), LAMBDA v : ConflictingVenueBookings(vb, v, e) = {})

\* allocateVenue reporting the conflicts of the first candidate only.
AllocateVenueFirstCandidateOnly(vb, e) ==
  IF CandidateVenues(e) # <<>> /\ FreeCandidates(vb, e) = <<>>
  THEN [success |-> FALSE, venueId |-> Null, venueBookings |-> vb,
        conflicts |-> <<[type |-> "venue_unavailable",
                         conflictingEventIds |->
                           {b.eventId : b \in ConflictingVenueBookings(
                                                vb, CandidateVenues(e)[1], e)}]>>]
  ELSE [success |-> FreeCandidates(vb, e) # <<>>,
        venueId |-> IF FreeCandidates(vb, e) # <<>> THEN FreeCandidates(vb, e)[1] ELSE Null,
        venueBookings |->
          IF FreeCandidates(vb, e) # <<>>
          THEN vb \cup {[id |-> NextId(vb, e), venueId |-> FreeCandidates(vb, e)[1],
                         eventId |-> e, startTime |-> Events[e].scheduleStart,
                         endTime |-> Events[e].scheduleEnd, status |-> "confirmed"]}
          ELSE vb,
        conflicts |-> IF FreeCandidates(vb, e) # <<>> THEN <<>>
                      ELSE <<[type |-> "venue_unavailable", conflictingEventIds |-> {}]>>]

AllocateVenue(vb, e) ==
  LET cands == CandidateVenues(e)
      free  == FreeCandidates(vb, e)
  IN  IF cands = <<>> THEN
        [success |-> FALSE, venueId |-> Null, venueBookings |-> vb,
         conflicts |-> <<[type |-> "venue_unavailable", conflictingEventIds |-> {}]>>]
      ELSE IF free # <<>> THEN
        [success |-> TRUE, venueId |-> free[1],
         venueBookings |-> vb \cup
           {[id |-> NextId(vb, e), venueId |-> free[1], eventId |-> e,
             startTime |-> Events[e].scheduleStart, endTime |-> Events[e].scheduleEnd,
             status |-> "confirmed"]},
         conflicts |-> <<>>]
      ELSE
        [success |-> FALSE, venueId |-> Null, venueBookings |-> vb,
         conflicts |-> <<[type |-> "venue_unavailable",
                          conflictingEventIds |->
                            UNION { {b.eventId : b \in ConflictingVenueBookings(vb, cands[i], e)}
                                    : i \in DOMAIN cands }]>>]

\* The overlap query without its status filter: provisional and cancelled
\* bookings count against the resource as confirmed ones do.
OverlappingResourceBookingsOfAnyStatus(rb, r, e) ==
  { b \in rb : b.resourceId = r /\ Overlaps(b, e) }

OverlappingResourceBookings(rb, r, e) ==
  { b \in rb : b.resourceId = r /\ b.status = "confirmed" /\ Overlaps(b, e) }

RECURSIVE SumQuantity(_)
SumQuantity(S) ==
  IF S = {} THEN 0
  ELSE LET b == CHOOSE x \in S : TRUE IN b.quantity + SumQuantity(S \ {b})

BookedQuantity(rb, r, e) == SumQuantity(OverlappingResourceBookings(rb, r, e))

\* The quantity check made against the resource's total alone, leaving the
\* overlapping bookings out of account.
AvailableQuantityIgnoringBookings(rb, r, e) == Resources[r].totalQuantity

AvailableQuantity(rb, r, e) == Resources[r].totalQuantity - BookedQuantity(rb, r, e)

RECURSIVE AllocateResourcesLoop(_, _, _, _, _)
AllocateResourcesLoop(reqs, e, rb, ra, conflicts) ==
  IF reqs = <<>> THEN
    [success |-> conflicts = <<>>, resourceBookings |-> rb, reqAllocated |-> ra,
     conflicts |-> conflicts]
  ELSE
    LET q == Head(reqs)
        r == ResourceRequests[q].resourceId
        needed == ResourceRequests[q].quantityNeeded
    IN  IF AvailableQuantity(rb, r, e) >= needed THEN
          AllocateResourcesLoop(Tail(reqs), e,
            rb \cup {[id |-> NextId(rb, e), resourceId |-> r, eventId |-> e,
                      quantity |-> needed,
                      startTime |-> Events[e].scheduleStart,
                      endTime |-> Events[e].scheduleEnd, status |-> "confirmed"]},
            [ra EXCEPT ![q] = TRUE], conflicts)
        ELSE
          AllocateResourcesLoop(Tail(reqs), e, rb, ra,
            Append(conflicts,
              [type |-> "resource_shortage", request |-> q, needed |-> needed,
               available |-> AvailableQuantity(rb, r, e),
               conflictingEventIds |->
                 {b.eventId : b \in OverlappingResourceBookings(rb, r, e)}]))

AllocateResources(rb, ra, e) ==
  AllocateResourcesLoop(Events[e].resourceRequests, e, rb, ra, <<>>)

SystemStep ==
  [approverId |-> System, stage |-> "APPROVED", action |-> "APPROVED",
   comments |-> "Automatic allocation completed successfully"]

AllocationResult(db, success, error, conflicts, explanation) ==
  [db |-> db, success |-> success, error |-> error, conflicts |-> conflicts,
   explanation |-> explanation]

\* The event update of allocateEvent writing the stage and not the status.
FinalizeEventStageOnly(db, e) ==
  [db EXCEPT !.approvalStage[e] = "APPROVED",
             !.approvalSteps[e] = Append(@, SystemStep)]

\* Steps 3 and 4 of allocateEvent: the event is finalised and the system's
\* approval step recorded.
FinalizeEvent(db, e) ==
  [db EXCEPT !.approvalStage[e] = "APPROVED",
             !.status[e] = "APPROVED",
             !.approvalSteps[e] = Append(@, SystemStep)]

\* allocateEvent going on to finalise the event whatever the resource step
\* returned.
AllocateEventResourcesUnchecked(db, db1, e, resourceResult) ==
  AllocationResult(
    FinalizeEvent([db1 EXCEPT !.resourceBookings = resourceResult.resourceBookings,
                              !.reqAllocated = resourceResult.reqAllocated], e),
    TRUE, Null, <<>>, "Event successfully allocated")

\* Step 2 of allocateEvent, on the store db1 that holds the venue booking.
AllocateEventResources(db, db1, e, resourceResult) ==
  IF ~resourceResult.success THEN
    AllocationResult(
      Transaction(db, [db1 EXCEPT !.resourceBookings = resourceResult.resourceBookings,
                                  !.reqAllocated = resourceResult.reqAllocated], FALSE),
      FALSE, Null, resourceResult.conflicts, "Resource allocation failed")
  ELSE
    AllocationResult(
      Transaction(db, FinalizeEvent(
                        [db1 EXCEPT !.resourceBookings = resourceResult.resourceBookings,
                                    !.reqAllocated = resourceResult.reqAllocated], e), FALSE),
      TRUE, Null, <<>>, "Event successfully allocated")

\* Step 1 of allocateEvent.
AllocateEventVenue(db, e, venueResult) ==
  IF ~venueResult.success THEN
    AllocationResult(Transaction(db, db, FALSE), FALSE, Null, venueResult.conflicts,
                     "Venue allocation failed")
  ELSE
    AllocateEventResources(db, [db EXCEPT !.venueBookings = venueResult.venueBookings], e,
                           AllocateResources(db.resourceBookings, db.reqAllocated, e))

\* allocateEvent without the check of the event's approvalStage.
AllocateEventAtAnyStage(db, e) ==
  IF e \notin EventIds THEN
    AllocationResult(Transaction(db, db, TRUE), FALSE, "NotFound", <<>>, Null)
  ELSE
    AllocateEventVenue(db, e, AllocateVenue(db.venueBookings, e))

\* The body of allocateEvent's transaction, run on the store value db.
AllocateEvent(db, e) ==
  IF e \notin EventIds THEN
    AllocationResult(Transaction(db, db, TRUE), FALSE, "NotFound", <<>>, Null)
  ELSE IF db.approvalStage[e] # "HEAD_APPROVED" THEN
    AllocationResult(Transaction(db, db, TRUE), FALSE, "NotReady", <<>>, Null)
  ELSE
    AllocateEventVenue(db, e, AllocateVenue(db.venueBookings, e))

\* What allocateEvent's transaction reads of the committed store: the event
\* row, the confirmed overlapping bookings of the candidate venues it walks
\* (up to the first free one) and, once a venue is found, those of the
\* requested resources.
VenuesWalked(vb, e) ==
  LET cands == CandidateVenues(e)
      free  == FreeCandidates(vb, e)
  IN  IF free = <<>> THEN {cands[i] : i \in DOMAIN cands}
      ELSE {cands[i] : i \in {j \in DOMAIN cands :
                                \A k \in 1..(j - 1) : cands[k] # free[1] }}

ReadSet(db, e) ==
  [ event |-> <<db.approvalStage[e], db.status[e]>>,
    venueBookings |->
      UNION {ConflictingVenueBookings(db.venueBookings, v, e)
               : v \in VenuesWalked(db.venueBookings, e)},
    resourceBookings |->
      IF FreeCandidates(db.venueBookings, e) = <<>> THEN {}
      ELSE UNION {OverlappingResourceBookings(db.resourceBookings,
                                              ResourceRequests[q].resourceId, e)
                    : q \in {Events[e].resourceRequests[i]
                               : i \in DOMAIN Events[e].resourceRequests}} ]

\* The transaction run without the serializable isolation level: it commits
\* whatever was committed since it began.
ReadCommitted(snapshot, db, e) == TRUE

\* isolationLevel: 'Serializable': a transaction commits only if what it read
\* at its start is still what the committed store holds, so that it takes
\* effect as if run alone at its commit; otherwise it fails with a
\* serialization error.
Serializable(snapshot, db, e) == ReadSet(snapshot, e) = ReadSet(db, e)

\* The rows a transaction appended to a table.
Appended(before, after) == SubSeq(after, Len(before) + 1, Len(after))

\* Commit: what a transaction that started on snapshot and left it as after
\* wrote (rows inserted, columns updated), applied to the committed store.
Rebase(db, snapshot, after) ==
  [db EXCEPT
     !.approvalStage =
        [e \in EventIds |-> IF after.approvalStage[e] # snapshot.approvalStage[e]
                            THEN after.approvalStage[e] ELSE db.approvalStage[e]],
     !.status =
        [e \in EventIds |-> IF after.status[e] # snapshot.status[e]
                            THEN after.status[e] ELSE db.status[e]],
     !.approvalSteps =
        [e \in EventIds |-> db.approvalSteps[e]
                              \o Appended(snapshot.approvalSteps[e], after.approvalSteps[e])],
     !.venueBookings = @ \cup (after.venueBookings \ snapshot.venueBookings),
     !.resourceBookings = @ \cup (after.resourceBookings \ snapshot.resourceBookings),
     !.reqAllocated =
        [q \in RequestIds |-> IF after.reqAllocated[q] # snapshot.reqAllocated[q]
                              THEN after.reqAllocated[q] ELSE db.reqAllocated[q]] ]

\* --------------------------------------------------------- approval engine
\* The permission check with the Institutional Head let through at every
\* stage that has no row of its own.
ValidateApprovalPermissionHeadAnywhere(approverRole, currentStage, approverSchoolId, approverDepartmentId, eventSchoolId, eventDepartmentId) ==
  CASE currentStage = "SUBMITTED" ->
         approverRole = "HOD" /\ approverDepartmentId = eventDepartmentId
    [] currentStage = "HOD_APPROVED" ->
         approverRole = "DEAN" /\ approverSchoolId = eventSchoolId
    [] OTHER -> approverRole = "INSTITUTIONAL_HEAD"

\* The permission check made on the role alone, without the department and
\* school scopes.
ValidateApprovalPermissionByRole(approverRole, currentStage, approverSchoolId, approverDepartmentId, eventSchoolId, eventDepartmentId) ==
  CASE currentStage = "SUBMITTED" -> approverRole = "HOD"
    [] currentStage = "HOD_APPROVED" -> approverRole = "DEAN"
    [] currentStage = "DEAN_APPROVED" -> approverRole = "INSTITUTIONAL_HEAD"
    [] OTHER -> FALSE

ValidateApprovalPermission(approverRole, currentStage, approverSchoolId, approverDepartmentId, eventSchoolId, eventDepartmentId) ==
  CASE currentStage = "SUBMITTED" ->
         approverRole = "HOD" /\ approverDepartmentId = eventDepartmentId
    [] currentStage = "HOD_APPROVED" ->
         approverRole = "DEAN" /\ approverSchoolId = eventSchoolId
    [] currentStage = "DEAN_APPROVED" ->
         approverRole = "INSTITUTIONAL_HEAD"
    [] OTHER -> FALSE

\* The workflow table with the Dean's stage left out of the chain.
GetNextApprovalStageSkippingDean(currentStage) ==
  CASE currentStage = "DRAFT" -> "SUBMITTED"
    [] currentStage = "SUBMITTED" -> "HOD_APPROVED"
    [] currentStage = "HOD_APPROVED" -> "HEAD_APPROVED"
    [] currentStage = "DEAN_APPROVED" -> "HEAD_APPROVED"
    [] currentStage = "HEAD_APPROVED" -> "APPROVED"
    [] currentStage = "APPROVED" -> "APPROVED"
    [] currentStage = "REJECTED" -> "REJECTED"
    [] currentStage = "MODIFICATION_REQUIRED" -> "SUBMITTED"

GetNextApprovalStage(currentStage) ==
  CASE currentStage = "DRAFT" -> "SUBMITTED"
    [] currentStage = "SUBMITTED" -> "HOD_APPROVED"
    [] currentStage = "HOD_APPROVED" -> "DEAN_APPROVED"
    [] currentStage = "DEAN_APPROVED" -> "HEAD_APPROVED"
    [] currentStage = "HEAD_APPROVED" -> "APPROVED"
    [] currentStage = "APPROVED" -> "APPROVED"
    [] currentStage = "REJECTED" -> "REJECTED"
    [] currentStage = "MODIFICATION_REQUIRED" -> "SUBMITTED"

GetRequiredApproverRole(stage) ==
  CASE stage = "SUBMITTED" -> "HOD"
    [] stage = "HOD_APPROVED" -> "DEAN"
    [] stage = "DEAN_APPROVED" -> "INSTITUTIONAL_HEAD"
    [] OTHER -> Null

\* The approver query without its isActive filter.
NextApproversIncludingInactive(role, e) ==
  SelectSeq(UserList, LAMBDA u :
    /\ Users[u].role = role
    /\ (role = "HOD" => Users[u].departmentId = Events[e].departmentId)
    /\ (role = "DEAN" => Users[u].schoolId = Events[e].schoolId))

\* tx.user.findMany({role, isActive: true, departmentId / schoolId by role})
NextApprovers(role, e) ==
  SelectSeq(UserList, LAMBDA u :
    /\ Users[u].role = role
    /\ Users[u].isActive
    /\ (role = "HOD" => Users[u].departmentId = Events[e].departmentId)
    /\ (role = "DEAN" => Users[u].schoolId = Events[e].schoolId))

Notify(users, type) == [i \in DOMAIN users |-> [userId |-> users[i], type |-> type]]

SendApprovalNotifications(e, action, newStage) ==
  CASE action = "APPROVED" ->
         <<[userId |-> Events[e].coordinatorId, type |-> "EVENT_APPROVED"]>>
         \o (IF newStage # "APPROVED" /\ GetRequiredApproverRole(newStage) # Null
             THEN Notify(NextApprovers(GetRequiredApproverRole(newStage), e),
                         "EVENT_SUBMITTED")
             ELSE <<>>)
    [] action = "REJECTED" ->
         <<[userId |-> Events[e].coordinatorId, type |-> "EVENT_REJECTED"]>>
    [] action = "MODIFICATION_REQUIRED" ->
         <<[userId |-> Events[e].coordinatorId, type |-> "EVENT_MODIFICATION_REQUIRED"]>>
    [] OTHER -> <<>>

AllocationFailedComment(explanation) ==
  IF explanation = "Venue allocation failed"
  THEN "Allocation failed: Venue allocation failed"
  ELSE "Allocation failed: Resource allocation failed"

Decision(threw, nextStage, eventStatus, action, comments, db) ==
  [threw |-> threw, nextStage |-> nextStage, eventStatus |-> eventStatus,
   action |-> action, comments |-> comments, db |-> db]

\* case APPROVED with nextStage = APPROVED: the outcome of the nested
\* allocateEvent call decides.
FinalApproval(db, comments, e, alloc) ==
  IF alloc.error # Null THEN
    Decision(TRUE, "APPROVED", db.status[e], "APPROVED", comments, db)
  ELSE IF alloc.success THEN
    Decision(FALSE, "APPROVED", "APPROVED", "APPROVED", comments, alloc.db)
  ELSE
    Decision(FALSE, db.approvalStage[e], "SUBMITTED", "MODIFICATION_REQUIRED",
             AllocationFailedComment(alloc.explanation), alloc.db)

\* The switch of processApproval: the stage, status, action and comments to
\* record, and the store as a nested allocateEvent call left it.
ApprovalDecision(db, action, comments, e) ==
  CASE action = "APPROVED" /\ GetNextApprovalStage(db.approvalStage[e]) # "APPROVED" ->
         Decision(FALSE, GetNextApprovalStage(db.approvalStage[e]), db.status[e],
                  action, comments, db)
    [] action = "APPROVED" /\ GetNextApprovalStage(db.approvalStage[e]) = "APPROVED" ->
         FinalApproval(db, comments, e, AllocateEvent(db, e))
    [] action = "REJECTED" ->
         Decision(FALSE, "REJECTED", "REJECTED", action, comments, db)
    [] action = "MODIFICATION_REQUIRED" ->
         Decision(FALSE, "MODIFICATION_REQUIRED", "SUBMITTED", action, comments, db)

CanApprove(db, approverId, e) ==
  ValidateApprovalPermission(Users[approverId].role, db.approvalStage[e],
                             Users[approverId].schoolId, Users[approverId].departmentId,
                             Events[e].schoolId, Events[e].departmentId)

CallResult(db, success, result) == [db |-> db, success |-> success, result |-> result]

\* processApproval storing the comments as rejectionReason whatever the
\* action.
RecordApprovalReasonAlways(db, approverId, e, d) ==
  IF d.threw THEN
    CallResult(Transaction(db, db, TRUE), FALSE, "AllocationError")
  ELSE
    CallResult(
      [d.db EXCEPT
         !.approvalStage[e] = d.nextStage,
         !.status[e] = d.eventStatus,
         !.rejectionReason[e] = d.comments,
         !.approvalSteps[e] = Append(@, [approverId |-> approverId,
                                         stage |-> d.nextStage,
                                         action |-> d.action,
                                         comments |-> d.comments]),
         !.notifications[e] = @ \o SendApprovalNotifications(e, d.action, d.nextStage)],
      TRUE, d.nextStage)

\* processApproval keeping one step per event: the new step replaces the
\* ledger instead of being appended to it.
RecordApprovalOverwriting(db, approverId, e, d) ==
  IF d.threw THEN
    CallResult(Transaction(db, db, TRUE), FALSE, "AllocationError")
  ELSE
    CallResult(
      [d.db EXCEPT
         !.approvalStage[e] = d.nextStage,
         !.status[e] = d.eventStatus,
         !.rejectionReason[e] = IF d.action = "REJECTED" THEN d.comments ELSE Null,
         !.approvalSteps[e] = <<[approverId |-> approverId,
                                 stage |-> d.nextStage,
                                 action |-> d.action,
                                 comments |-> d.comments]>>,
         !.notifications[e] = @ \o SendApprovalNotifications(e, d.action, d.nextStage)],
      TRUE, d.nextStage)

\* The event update, the ApprovalStep and the notifications of processApproval.
RecordApproval(db, approverId, e, d) ==
  IF d.threw THEN
    CallResult(Transaction(db, db, TRUE), FALSE, "AllocationError")
  ELSE
    CallResult(
      Transaction(d.db,
        [d.db EXCEPT
           !.approvalStage[e] = d.nextStage,
           !.status[e] = d.eventStatus,
           !.rejectionReason[e] = IF d.action = "REJECTED" THEN d.comments ELSE Null,
           !.approvalSteps[e] = Append(@, [approverId |-> approverId,
                                           stage |-> d.nextStage,
                                           action |-> d.action,
                                           comments |-> d.comments]),
           !.notifications[e] = @ \o SendApprovalNotifications(e, d.action, d.nextStage)],
        FALSE),
      TRUE, d.nextStage)

\* processApproval with the action checked only after the step has been
\* recorded: an unknown action is written to the ledger and then reported as
\* a failure.
ProcessApprovalCallLateCheck(db, approverId, action, comments, e) ==
  IF e \notin EventIds \/ approverId \notin UserIds THEN
    CallResult(Transaction(db, db, TRUE), FALSE, "NotFound")
  ELSE IF ~CanApprove(db, approverId, e) THEN
    CallResult(Transaction(db, db, FALSE), FALSE, "PermissionDenied")
  ELSE IF action \notin {"APPROVED", "REJECTED", "MODIFICATION_REQUIRED"} THEN
    CallResult(
      RecordApproval(db, approverId, e,
                     Decision(FALSE, db.approvalStage[e], db.status[e],
                              action, comments, db)).db,
      FALSE, "InvalidAction")
  ELSE
    RecordApproval(db, approverId, e, ApprovalDecision(db, action, comments, e))

\* The body of processApproval's transaction, run on the store value db.
ProcessApprovalCall(db, approverId, action, comments, e) ==
  IF e \notin EventIds \/ approverId \notin UserIds THEN
    CallResult(Transaction(db, db, TRUE), FALSE, "NotFound")
  ELSE IF ~CanApprove(db, approverId, e) THEN
    CallResult(Transaction(db, db, FALSE), FALSE, "PermissionDenied")
  ELSE IF action \notin {"APPROVED", "REJECTED", "MODIFICATION_REQUIRED"} THEN
    CallResult(Transaction(db, db, FALSE), FALSE, "InvalidAction")
  ELSE
    RecordApproval(db, approverId, e, ApprovalDecision(db, action, comments, e))

\* submitEventForApproval without the check of the caller against the
\* event's coordinator.
SubmitEventForApprovalCallByAnyone(db, e, coordinatorId) ==
  IF e \notin EventIds THEN
    CallResult(Transaction(db, db, FALSE), FALSE, "NotFound")
  ELSE IF db.status[e] # "DRAFT" THEN
    CallResult(Transaction(db, db, FALSE), FALSE, "NotDraft")
  ELSE
    CallResult(
      [db EXCEPT
         !.status[e] = "SUBMITTED",
         !.approvalStage[e] = "SUBMITTED",
         !.approvalSteps[e] = Append(@, [approverId |-> coordinatorId,
                                         stage |-> "SUBMITTED",
                                         action |-> "SUBMITTED",
                                         comments |-> "Event submitted for approval"])],
      TRUE, "SUBMITTED")

\* The body of submitEventForApproval's transaction.
SubmitEventForApprovalCall(db, e, coordinatorId) ==
  IF e \notin EventIds THEN
    CallResult(Transaction(db, db, FALSE), FALSE, "NotFound")
  ELSE IF Events[e].coordinatorId # coordinatorId THEN
    CallResult(Transaction(db, db, FALSE), FALSE, "Unauthorized")
  ELSE IF db.status[e] # "DRAFT" THEN
    CallResult(Transaction(db, db, FALSE), FALSE, "NotDraft")
  ELSE
    CallResult(
      Transaction(db,
        [db EXCEPT
           !.status[e] = "SUBMITTED",
           !.approvalStage[e] = "SUBMITTED",
           !.approvalSteps[e] = Append(@, [approverId |-> coordinatorId,
                                           stage |-> "SUBMITTED",
                                           action |-> "SUBMITTED",
                                           comments |-> "Event submitted for approval"]),
           !.notifications[e] = @ \o Notify(NextApprovers("HOD", e), "EVENT_SUBMITTED")],
        FALSE),
      TRUE, "SUBMITTED")

\* ------------------------------------------------------ feasibility check
\* checkVenueAvailability: the candidates are filtered on isActive,
\* maintenanceMode and capacity only, and no event ids are reported.
FeasibilityCandidates(e) ==
  { v \in VenueIds :
      /\ Venues[v].isActive
      /\ ~Venues[v].maintenanceMode
      /\ Venues[v].capacity >= Events[e].participantCount }

VenueUnavailable == <<[type |-> "venue_unavailable", conflictingEventIds |-> {}]>>

CheckVenueAvailability(vb, e) ==
  IF FeasibilityCandidates(e) = {} THEN
    [success |-> FALSE, conflicts |-> VenueUnavailable]
  ELSE IF \E v \in FeasibilityCandidates(e) : ConflictingVenueBookings(vb, v, e) = {} THEN
    [success |-> TRUE, conflicts |-> <<>>]
  ELSE
    [success |-> FALSE, conflicts |-> VenueUnavailable]

\* checkResourceAvailability: every request is compared with what the
\* bookings in the store leave of the resource.
RECURSIVE CheckResourcesLoop(_, _, _, _)
CheckResourcesLoop(reqs, e, rb, conflicts) ==
  IF reqs = <<>> THEN [success |-> conflicts = <<>>, conflicts |-> conflicts]
  ELSE IF AvailableQuantity(rb, ResourceRequests[Head(reqs)].resourceId, e)
            < ResourceRequests[Head(reqs)].quantityNeeded
  THEN CheckResourcesLoop(Tail(reqs), e, rb,
         Append(conflicts,
           [type |-> "resource_shortage", request |-> Head(reqs),
            needed |-> ResourceRequests[Head(reqs)].quantityNeeded,
            available |-> AvailableQuantity(rb, ResourceRequests[Head(reqs)].resourceId, e),
            conflictingEventIds |->
              {b.eventId : b \in OverlappingResourceBookings(
                                   rb, ResourceRequests[Head(reqs)].resourceId, e)}]))
  ELSE CheckResourcesLoop(Tail(reqs), e, rb, conflicts)

CheckResourceAvailability(rb, e) ==
  CheckResourcesLoop(Events[e].resourceRequests, e, rb, <<>>)

FeasibilityResult(db, venueCheck, resourceCheck) ==
  AllocationResult(db, venueCheck.success /\ resourceCheck.success, Null,
                   venueCheck.conflicts \o resourceCheck.conflicts, "Feasibility check")

\* A feasibility check that marks the event's requests with its finding.
CheckAllocationFeasibilityCallMarking(db, e) ==
  IF e \notin EventIds THEN
    AllocationResult(db, FALSE, "NotFound", <<>>, Null)
  ELSE
    FeasibilityResult(
      [db EXCEPT !.reqAllocated =
         [q \in RequestIds |->
            IF ResourceRequests[q].eventId = e
            THEN CheckResourceAvailability(db.resourceBookings, e).success
            ELSE db.reqAllocated[q]]],
      CheckVenueAvailability(db.venueBookings, e),
      CheckResourceAvailability(db.resourceBookings, e))

\* checkAllocationFeasibility, reading the store value db; the store it
\* leaves is the one it read.
CheckAllocationFeasibilityCall(db, e) ==
  IF e \notin EventIds THEN
    AllocationResult(db, FALSE, "NotFound", <<>>, Null)
  ELSE
    FeasibilityResult(db, CheckVenueAvailability(db.venueBookings, e),
                      CheckResourceAvailability(db.resourceBookings, e))

\* ------------------------------------------------------------ housekeeping
RECURSIVE RestoreQuantities(_, _)
RestoreQuantities(aq, S) ==
  IF S = {} THEN aq
  ELSE LET b == CHOOSE x \in S : TRUE
       IN  RestoreQuantities([aq EXCEPT ![b.resourceId] = @ + b.quantity], S \ {b})

Cancel(rows, e) ==
  {IF b.eventId = e THEN [b EXCEPT !.status = "cancelled"] ELSE b : b \in rows}

\* The release without its check of the event's end and status.
ReleaseDueWhenever(db, e, t) == e \in EventIds

ReleaseDue(db, e, t) ==
  e \in EventIds /\ ~(Events[e].scheduleEnd > t /\ db.status[e] # "COMPLETED")

ProcessAutoResourceRelease(db, e, t) ==
  IF ~ReleaseDue(db, e, t) THEN db
  ELSE [db EXCEPT
          !.venueBookings = Cancel(@, e),
          !.resourceBookings = Cancel(@, e),
          !.availableQuantity =
             RestoreQuantities(@, {b \in db.resourceBookings : b.eventId = e}),
          !.auditLog = Append(@, [action |-> "auto_release", eventId |-> e])]

\* The stale bookings with the cutoff itself included.
StaleIncludingCutoff(rows, t) ==
  {b \in rows : b.status = "provisional" /\ b.createdAt <= t - StaleAfter}

Stale(rows, t) ==
  {b \in rows : b.status = "provisional" /\ b.createdAt < t - StaleAfter}

ProcessCleanupStaleAllocations(db, t) ==
  [db EXCEPT
     !.venueBookings = @ \ Stale(db.venueBookings, t),
     !.availableQuantity = RestoreQuantities(@, Stale(db.resourceBookings, t)),
     !.resourceBookings = @ \ Stale(db.resourceBookings, t),
     !.auditLog = IF Stale(db.venueBookings, t) # {} \/ Stale(db.resourceBookings, t) # {}
                  THEN Append(@, [action |-> "cleanup_stale", eventId |-> Null])
                  ELSE @]

\* ---------------------------------------------------------- background jobs
JobList == <<"j1", "j2">>

JobIds == {JobList[i] : i \in 1..Len(JobList)}

WorkerIds == {"w1", "w2"}

\* A BackgroundJob row; executions counts the runs of the job's handler.
NoJob ==
  [status |-> "NONE", type |-> Null, attempts |-> 0, maxAttempts |-> 0, scheduledFor |-> 0,
   executions |-> 0]

NoJobs == [j \in JobIds |-> NoJob]

\* A run that is not in progress.  run names the entry point of a run in
\* progress, queue holds the ids it still has to process (the head is the one
\* in hand) and job the row processJob read with findUnique.
Idle == [pc |-> "idle", run |-> Null, queue |-> <<>>, job |-> NoJob]

\* The job types the switch of processJob knows.
KnownJobTypes ==
  {"AUTO_RESOURCE_RELEASE", "CLEANUP_STALE_ALLOCATIONS", "REFRESH_OCCUPANCY_SNAPSHOTS",
   "NOTIFICATION_RETRY", "EVENT_REMINDER"}

\* The types of the scheduled jobs: one whose handler writes only occupancy
\* snapshots and may throw, and one the switch does not know.
JobTypes == {"REFRESH_OCCUPANCY_SNAPSHOTS", "UNKNOWN"}

DefaultMaxAttempts == 3

MaxAttemptsInputs == {2, DefaultMaxAttempts}

BatchSize == 10

\* The cap of the retry delay, five minutes, in seconds: job time is in seconds.
RetryDelayCap == 300

MathMin(a, b) == IF a <= b THEN a ELSE b

\* Math.min(1000 * Math.pow(2, attempts), 300000) milliseconds, in seconds.
RetryDelay(attempts) == MathMin(2 ^ attempts, RetryDelayCap)

\* scheduleJob: the created row.
ScheduleJobCall(js, j, type, scheduledFor, maxAttempts) ==
  [js EXCEPT ![j] = [status |-> "PENDING", type |-> type, attempts |-> 0,
                     maxAttempts |-> maxAttempts, scheduledFor |-> scheduledFor,
                     executions |-> 0]]

\* The id of the next created row.
FreshJobId(js) ==
  JobList[CHOOSE i \in 1..Len(JobList) :
            js[JobList[i]].status = "NONE" /\ \A k \in 1..(i - 1) : js[JobList[k]].status # "NONE"]

\* where: status PENDING and scheduledFor lte now.
PendingDue(js, t) == {j \in JobIds : js[j].status = "PENDING" /\ js[j].scheduledFor <= t}

\* orderBy scheduledFor asc: every order of the rows the store may return.
OrderedByScheduledFor(js, S) ==
  {q \in [1..Cardinality(S) -> S] :
     /\ \A i, k \in 1..Cardinality(S) : i # k => q[i] # q[k]
     /\ \A i, k \in 1..Cardinality(S) : i < k => js[q[i]].scheduledFor <= js[q[k]].scheduledFor}

Take(q, n) == SubSeq(q, 1, MathMin(n, Len(q)))

\* The findMany of processPendingJobs.
PendingJobs(js, t) == {Take(q, BatchSize) : q \in OrderedByScheduledFor(js, PendingDue(js, t))}

\* The switch of processJob throws on an unknown type; a handler may throw.
HandlerThrows(type, fails) == type \notin KnownJobTypes \/ fails

\* The status the catch block writes, from the row read before the attempt.
StatusAfterFailure(job) ==
  IF job.attempts + 1 >= job.maxAttempts THEN "FAILED" ELSE "RETRYING"

\* The update of the catch block.
RecordFailure(js, j, job) ==
  [js EXCEPT ![j].attempts = @ + 1, ![j].status = StatusAfterFailure(job)]

ShouldReschedule(job) == job.attempts + 1 < job.maxAttempts

RescheduleJobLeavingRetrying(js, j, job, t) ==
  [js EXCEPT ![j].scheduledFor = t + RetryDelay(job.attempts)]

\* The second update of the catch block.
RescheduleJob(js, j, job, t) ==
  [js EXCEPT ![j].scheduledFor = t + RetryDelay(job.attempts), ![j].status = "PENDING"]

\* The run goes on to the next id of its list, or returns.
NextInQueue(wk) ==
  IF Len(wk.queue) > 1
    THEN [pc |-> "start", run |-> wk.run, queue |-> Tail(wk.queue), job |-> NoJob]
    ELSE Idle

\* ------------------------------------------------------------- rate limiter
\* request.ip: an address, or none.
RequestIps == {"a1", Null}

\* const clientIP = request.ip || 'anonymous'
ClientIP(ip) == IF ip = Null THEN "anonymous" ELSE ip

ClientIds == {ClientIP(ip) : ip \in RequestIps}

\* rateLimitMap.get(clientIP) is undefined: no entry, written as a count of 0.
NoClientData == [count |-> 0, resetTime |-> 0]

\* The window of 15 minutes, as two steps of the clock.
windowMs == 2

maxRequests == 100

TooManyFrom(count) == count >= maxRequests

\* if (clientData.count > maxRequests)
TooMany(count) == count > maxRequests

\* The rate limiting of middleware(request): the map after the request and
\* whether the request is answered with 429 or goes on to the route checks.
RateLimit(map, clientIP, t) ==
  LET clientData == map[clientIP]
      fresh == [count |-> 1, resetTime |-> t + windowMs]
  IN  IF clientData # NoClientData
        THEN IF t > clientData.resetTime
               THEN [map |-> [map EXCEPT ![clientIP] = fresh], result |-> "Next"]
               ELSE [map |-> [map EXCEPT ![clientIP].count = @ + 1],
                     result |-> IF TooMany(clientData.count + 1) THEN "429" ELSE "Next"]
        ELSE [map |-> [map EXCEPT ![clientIP] = fresh], result |-> "Next"]

\* ----------------------------------------------------------------- actions
\* The record of a call: who called what on which event with which action,
\* and what came back.
Call(op, e, by, action, result, conflicts) ==
  [op |-> op, eventId |-> e, by |-> by, action |-> action, result |-> result,
   conflicts |-> conflicts]

NoCall(op) == Call(op, NoEvent, Null, Null, Null, <<>>)

InitialStore ==
  [ approvalStage |-> [e \in EventIds |-> "DRAFT"],
    status |-> [e \in EventIds |-> "DRAFT"],
    rejectionReason |-> [e \in EventIds |-> Null],
    approvalSteps |-> [e \in EventIds |-> <<>>],
    notifications |-> [e \in EventIds |-> <<>>],
    venueBookings |-> {},
    resourceBookings |-> {},
    reqAllocated |-> [q \in RequestIds |-> FALSE],
    availableQuantity |-> [r \in ResourceIds |-> Resources[r].totalQuantity],
    auditLog |-> <<>> ]

Holds(db) ==
  /\ approvalStage = db.approvalStage
  /\ status = db.status
  /\ rejectionReason = db.rejectionReason
  /\ approvalSteps = db.approvalSteps
  /\ notifications = db.notifications
  /\ venueBookings = db.venueBookings
  /\ resourceBookings = db.resourceBookings
  /\ reqAllocated = db.reqAllocated
  /\ availableQuantity = db.availableQuantity
  /\ auditLog = db.auditLog

\* No run of the job service is in progress and no request has been served.
ServicesIdle ==
  /\ workers = [w \in WorkerIds |-> Idle]
  /\ rateLimitMap = [c \in ClientIds |-> NoClientData]

Init ==
  /\ Holds(InitialStore)
  /\ jobs = NoJobs
  /\ ServicesIdle
  /\ now = 0
  /\ txs = [t \in TxIds |-> NoTx]
  /\ last = NoCall("init")

Commit(db) ==
  /\ approvalStage' = db.approvalStage
  /\ status' = db.status
  /\ rejectionReason' = db.rejectionReason
  /\ approvalSteps' = db.approvalSteps
  /\ notifications' = db.notifications
  /\ venueBookings' = db.venueBookings
  /\ resourceBookings' = db.resourceBookings
  /\ reqAllocated' = db.reqAllocated
  /\ availableQuantity' = db.availableQuantity
  /\ auditLog' = db.auditLog
  /\ UNCHANGED serviceVars

\* A call that ran its transaction on the store and returned r.  The action
\* is recorded for the calls that got as far as looking at it.
Returns(op, e, by, action, r) ==
  /\ Commit(r.db)
  /\ last' = Call(op, e, by,
                  IF r.result \in {"NotFound", "PermissionDenied"} THEN Null ELSE action,
                  r.result, <<>>)

SubmitEventForApproval(e, coordinatorId) ==
  /\ Returns("submitEventForApproval", e, coordinatorId, "SUBMITTED",
             SubmitEventForApprovalCall(DB, e, coordinatorId))
  /\ UNCHANGED <<now, txs>>

ProcessApproval(approverId, action, comments, e) ==
  /\ Returns("processApproval", e, approverId, action,
             ProcessApprovalCall(DB, approverId, action, comments, e))
  /\ UNCHANGED <<now, txs>>

\* allocateEvent opens its transaction and reads the event: a missing or
\* unready event makes it throw at once, otherwise it runs on its snapshot.
AllocateEventBegin(t, e) ==
  /\ txs[t] = NoTx
  /\ \A u \in TxIds : txs[u] = NoTx => t = "t1" \/ txs["t1"] # NoTx
  /\ IF AllocateEvent(DB, e).error # Null
     THEN /\ last' = Call("allocateEvent", e, System, Null, AllocateEvent(DB, e).error, <<>>)
          /\ UNCHANGED txs
     ELSE /\ last' = Call("allocateEvent", e, System, Null, "Begin", <<>>)
          /\ txs' = [txs EXCEPT ![t] = [eventId |-> e, snapshot |-> DB]]
  /\ UNCHANGED <<approvalStage, status, rejectionReason, approvalSteps, notifications,
                 venueBookings, resourceBookings, reqAllocated, availableQuantity,
                 auditLog, now, serviceVars>>

AllocationReturns(e, snapshot, r) ==
  /\ Commit(Rebase(DB, snapshot, r.db))
  /\ last' = Call("allocateEvent", e, System, Null,
                  IF r.success THEN "Success" ELSE "Failed", r.conflicts)

\* allocateEvent's transaction ends: it commits what its callback wrote, or
\* fails with a serialization error and writes nothing.
AllocateEventEnd(t) ==
  /\ txs[t] # NoTx
  /\ IF Serializable(txs[t].snapshot, DB, txs[t].eventId)
     THEN AllocationReturns(txs[t].eventId, txs[t].snapshot,
                            AllocateEvent(txs[t].snapshot, txs[t].eventId))
     ELSE /\ Commit(DB)
          /\ last' = Call("allocateEvent", txs[t].eventId, System, Null,
                          "SerializationFailure", <<>>)
  /\ txs' = [txs EXCEPT ![t] = NoTx]
  /\ UNCHANGED now

FeasibilityReturns(e, r) ==
  /\ Commit(r.db)
  /\ last' = Call("checkAllocationFeasibility", e, System, Null,
                  IF r.error # Null THEN r.error
                  ELSE IF r.success THEN "Feasible" ELSE "Infeasible",
                  r.conflicts)

CheckAllocationFeasibility(e) ==
  /\ FeasibilityReturns(e, CheckAllocationFeasibilityCall(DB, e))
  /\ UNCHANGED <<now, txs>>

AutoResourceRelease(e) ==
  /\ ReleaseDue(DB, e, now) => Len(auditLog) < MaxAudit
  /\ Commit(ProcessAutoResourceRelease(DB, e, now))
  /\ last' = Call("autoResourceRelease", e, System, Null,
                  IF ReleaseDue(DB, e, now) THEN "Released" ELSE "Skipped", <<>>)
  /\ UNCHANGED <<now, txs>>

CleanupStaleAllocations ==
  /\ Len(ProcessCleanupStaleAllocations(DB, now).auditLog) <= MaxAudit
  /\ Commit(ProcessCleanupStaleAllocations(DB, now))
  /\ last' = Call("cleanupStaleAllocations", NoEvent, System, Null, "Done", <<>>)
  /\ UNCHANGED <<now, txs>>

Tick ==
  /\ now < MaxTime
  /\ now' = now + 1
  /\ last' = NoCall("tick")
  /\ UNCHANGED <<approvalStage, status, rejectionReason, approvalSteps, notifications,
                 venueBookings, resourceBookings, reqAllocated, availableQuantity,
                 auditLog, txs, serviceVars>>

\* The request-driven operations: submission, approval, allocation and the
\* feasibility check.
Next ==
  \/ \E in \in SubmitInputs : SubmitEventForApproval(in[1], in[2])
  \/ \E in \in ApprovalInputs, act \in ApprovalActions, c \in CommentInputs :
        ProcessApproval(in[1], act, c, in[2])
  \/ \E t \in TxIds, e \in RequestedEvents \cup {NoEvent} : AllocateEventBegin(t, e)
  \/ \E t \in TxIds : AllocateEventEnd(t)
  \/ \E e \in EventIds \cup {NoEvent} : CheckAllocationFeasibility(e)

Spec == Init /\ [][Next]_vars

\* Allocation together with the housekeeping jobs and the passing of time,
\* from the store in which every event has gone through the three approvals
\* and some provisional holds may exist.
ProvisionalVenueBooking ==
  [id |-> <<"e1", 0>>, venueId |-> "v1", eventId |-> "e1", startTime |-> 0,
   endTime |-> 2, status |-> "provisional", createdAt |-> 0]

ProvisionalResourceBooking ==
  [id |-> <<"e1", 0>>, resourceId |-> "r1", eventId |-> "e1", quantity |-> 1,
   startTime |-> 0, endTime |-> 2, status |-> "provisional", createdAt |-> 0]

Approve(db, approverId, e) == ProcessApprovalCall(db, approverId, "APPROVED", "text", e).db

HeadApprove(db, e) ==
  Approve(Approve(Approve(
    SubmitEventForApprovalCall(db, e, Events[e].coordinatorId).db, "h1", e), "n1", e), "ih", e)

HeadApprovedStore == HeadApprove(HeadApprove(InitialStore, "e1"), "e2")

\* Confirmed bookings of an event allocated earlier: its venue booking begins
\* when e1 ends, its resource booking ends when e2 begins.
EarlierEvent == "e3"

EarlierVenueBooking ==
  [id |-> <<EarlierEvent, 1>>, venueId |-> "v1", eventId |-> EarlierEvent,
   startTime |-> 2, endTime |-> 3, status |-> "confirmed"]

EarlierResourceBooking ==
  [id |-> <<EarlierEvent, 1>>, resourceId |-> "r1", eventId |-> EarlierEvent,
   quantity |-> 1, startTime |-> 0, endTime |-> 1, status |-> "confirmed"]

HeldInputs == {"none", "held"}

\* The store before the allocations: nothing booked, or a provisional hold
\* for e1 together with the earlier event's confirmed bookings.
StoreHolding(held) ==
  [HeadApprovedStore EXCEPT
     !.venueBookings = IF held = "held"
                       THEN {ProvisionalVenueBooking, EarlierVenueBooking} ELSE {},
     !.resourceBookings = IF held = "held"
                          THEN {ProvisionalResourceBooking, EarlierResourceBooking} ELSE {},
     !.availableQuantity =
        IF held = "held"
        THEN [@ EXCEPT ![ProvisionalResourceBooking.resourceId] =
                          @ - ProvisionalResourceBooking.quantity]
        ELSE @]

InitHousekeeping ==
  /\ \E held \in HeldInputs : Holds(StoreHolding(held))
  /\ jobs = NoJobs
  /\ ServicesIdle
  /\ now = 0
  /\ txs = [t \in TxIds |-> NoTx]
  /\ last = NoCall("init")

NextHousekeeping ==
  \/ \E t \in TxIds, e \in RequestedEvents \cup {NoEvent} : AllocateEventBegin(t, e)
  \/ \E t \in TxIds : AllocateEventEnd(t)
  \/ \E e \in RequestedEvents \cup {NoEvent} : AutoResourceRelease(e)
  \/ CleanupStaleAllocations
  \/ Tick

SpecHousekeeping == InitHousekeeping /\ [][NextHousekeeping]_vars

\* The feasibility check next to allocations made one at a time, the release
\* job and the passing of time, from the same stores with e4 approved too.
InitFeasibility ==
  /\ \E held \in HeldInputs : Holds(HeadApprove(StoreHolding(held), "e4"))
  /\ jobs = NoJobs
  /\ ServicesIdle
  /\ now = 0
  /\ txs = [t \in TxIds |-> NoTx]
  /\ last = NoCall("init")

NextFeasibility ==
  \/ \E e \in EventIds \cup {NoEvent} : AllocateEventBegin("t1", e)
  \/ AllocateEventEnd("t1")
  \/ \E e \in EventIds \cup {NoEvent} : AutoResourceRelease(e)
  \/ \E e \in EventIds \cup {NoEvent} : CheckAllocationFeasibility(e)
  \/ Tick

SpecFeasibility == InitFeasibility /\ [][NextFeasibility]_vars

\* Submission and approval when tx.notification.create may reject.  Nothing
\* between createNotification and the transaction callback catches the
\* error, so the callback throws and the transaction rolls back.
CreateNotificationFails(db, r) ==
  IF r.success /\ r.db.notifications # db.notifications
  THEN CallResult(Transaction(db, r.db, TRUE), FALSE, "NotificationError")
  ELSE r

SubmitEventForApprovalNotifying(e, coordinatorId, fails) ==
  /\ Returns("submitEventForApproval", e, coordinatorId, "SUBMITTED",
             IF fails
             THEN CreateNotificationFails(DB, SubmitEventForApprovalCall(DB, e, coordinatorId))
             ELSE SubmitEventForApprovalCall(DB, e, coordinatorId))
  /\ UNCHANGED <<now, txs>>

ProcessApprovalNotifying(approverId, action, comments, e, fails) ==
  /\ Returns("processApproval", e, approverId, action,
             IF fails
             THEN CreateNotificationFails(DB, ProcessApprovalCall(DB, approverId, action, comments, e))
             ELSE ProcessApprovalCall(DB, approverId, action, comments, e))
  /\ UNCHANGED <<now, txs>>

NextNotifying ==
  \/ \E in \in SubmitInputs, fails \in BOOLEAN :
        SubmitEventForApprovalNotifying(in[1], in[2], fails)
  \/ \E in \in ApprovalInputs, act \in ApprovalActions, c \in CommentInputs,
        fails \in BOOLEAN :
        ProcessApprovalNotifying(in[1], act, c, in[2], fails)

SpecNotifying == Init /\ [][NextNotifying]_vars

\* Two processApproval transactions on the event e1 running at once.  The
\* call gives prisma.$transaction no isolationLevel, so the database's
\* default applies: the transaction reads the event and the approver when it
\* begins and writes when it ends, and a transaction that finds the event
\* row changed since it read it either overwrites it (READ COMMITTED) or, on
\* a database that detects the conflict, fails and writes nothing.
ConcurrentInputs == {in \in ApprovalInputs : in[2] \in {"e1", NoEvent}}

SubmittedStore == SubmitEventForApprovalCall(InitialStore, "e1", Events["e1"].coordinatorId).db

InitConcurrent ==
  /\ Holds(SubmittedStore)
  /\ jobs = NoJobs
  /\ ServicesIdle
  /\ now = 0
  /\ txs = [t \in TxIds |-> NoTx]
  /\ last = NoCall("init")

\* What the transaction wrote, applied to the committed store: the columns
\* of the event update, the ApprovalStep row and the notification rows.
CommitApproval(db, snapshot, after, e) ==
  [db EXCEPT
     !.approvalStage[e] = after.approvalStage[e],
     !.status[e] = after.status[e],
     !.rejectionReason[e] = after.rejectionReason[e],
     !.approvalSteps[e] = @ \o Appended(snapshot.approvalSteps[e], after.approvalSteps[e]),
     !.notifications[e] = @ \o Appended(snapshot.notifications[e], after.notifications[e])]

\* processApproval reads the event and the approver and checks the
\* permission: a call that is refused or throws returns at once.
ProcessApprovalBegin(t, approverId, action, comments, e) ==
  /\ txs[t] = NoTx
  /\ \A u \in TxIds : txs[u] = NoTx => t = "t1" \/ txs["t1"] # NoTx
  /\ IF ~ProcessApprovalCall(DB, approverId, action, comments, e).success
     THEN /\ Returns("processApproval", e, approverId, action,
                     ProcessApprovalCall(DB, approverId, action, comments, e))
          /\ UNCHANGED txs
     ELSE /\ Commit(DB)
          /\ last' = Call("processApproval", e, approverId, action, "Begin", <<>>)
          /\ txs' = [txs EXCEPT ![t] = [eventId |-> e, snapshot |-> DB,
                                       approverId |-> approverId, action |-> action,
                                       comments |-> comments]]
  /\ UNCHANGED now

ApprovalReturns(tx, r) ==
  /\ Commit(CommitApproval(DB, tx.snapshot, r.db, tx.eventId))
  /\ last' = Call("processApproval", tx.eventId, tx.approverId, tx.action, r.result, <<>>)

\* processApproval's transaction ends: it writes what it decided on the
\* event it read, or fails on the event row another transaction changed.
ProcessApprovalEnd(t, detected) ==
  /\ txs[t] # NoTx
  /\ IF detected /\ ReadSet(txs[t].snapshot, txs[t].eventId).event
                      # ReadSet(DB, txs[t].eventId).event
     THEN /\ Commit(DB)
          /\ last' = Call("processApproval", txs[t].eventId, txs[t].approverId,
                          txs[t].action, "WriteConflict", <<>>)
     ELSE ApprovalReturns(txs[t],
            ProcessApprovalCall(txs[t].snapshot, txs[t].approverId, txs[t].action,
                                txs[t].comments, txs[t].eventId))
  /\ txs' = [txs EXCEPT ![t] = NoTx]
  /\ UNCHANGED now

NextConcurrent ==
  \/ \E t \in TxIds, in \in ConcurrentInputs, act \in ApprovalActions, c \in CommentInputs :
        ProcessApprovalBegin(t, in[1], act, c, in[2])
  \/ \E t \in TxIds, detected \in BOOLEAN : ProcessApprovalEnd(t, detected)

SpecConcurrent == InitConcurrent /\ [][NextConcurrent]_vars

\* ------------------------------------------------------------------ claims
Confirmed(rows) == {b \in rows : b.status = "confirmed"}

LastStep(steps) == steps[Len(steps)]

RequestsOf(e) == {Events[e].resourceRequests[i] : i \in DOMAIN Events[e].resourceRequests}

\* A venue and every requested quantity are available for the event's window.
Feasible(db, e) ==
  /\ AllocateVenue(db.venueBookings, e).success
  /\ AllocateResources(db.resourceBookings, db.reqAllocated, e).success

\* The Institutional Head's Approved action on an event that has passed the
\* HOD and Dean approvals is the step being taken.
FinalStageApproval(e) ==
  /\ last'.op = "processApproval"
  /\ last'.eventId = e
  /\ last'.action = "APPROVED"
  /\ Users[last'.by].role = "INSTITUTIONAL_HEAD"
  /\ approvalStage[e] = "DEAN_APPROVED"

\* C1: no two confirmed VenueBookings of the same venue have strictly
\* overlapping intervals, whatever the interleaving of allocateEvent
\* transactions, auto-releases and cleanups.
NoVenueDoubleBooking ==
  \A a, b \in Confirmed(venueBookings) :
    (a # b /\ a.venueId = b.venueId)
      => ~(a.startTime < b.endTime /\ a.endTime > b.startTime)

\* C1 witness: an allocateEvent transaction that competed for a venue lost to
\* the other event's committed booking of it.
CompetingAllocationRefused ==
  /\ last.op = "allocateEvent"
  /\ last.result = "SerializationFailure"
  /\ \E b \in Confirmed(venueBookings) :
       /\ b.eventId # last.eventId
       /\ b.venueId = CandidateVenues(last.eventId)[1]
       /\ Overlaps(b, last.eventId)

BookedAt(r, t) ==
  SumQuantity({b \in Confirmed(resourceBookings) :
                 b.resourceId = r /\ b.startTime <= t /\ t < b.endTime})

\* C2: for every resource and every instant, the confirmed bookings covering
\* the instant sum to at most the resource's totalQuantity.
ResourceWithinCapacity ==
  \A r \in ResourceIds, t \in 0..MaxTime :
    BookedAt(r, t) <= Resources[r].totalQuantity

\* C2 witness: a resource is booked up to its total at some instant, two of
\* the bookings being for two requests of one event.
ResourceFullyBooked ==
  \E r \in ResourceIds, t \in 0..MaxTime, e \in EventIds :
    /\ BookedAt(r, t) = Resources[r].totalQuantity
    /\ Cardinality({b \in Confirmed(resourceBookings) :
                      b.resourceId = r /\ b.eventId = e}) = 2

\* C3: an allocateEvent that returns a failure leaves no booking created
\* during the attempt and no ResourceRequest newly marked allocated.
AllocationFailureRollsBack ==
  [][(last'.op = "allocateEvent" /\ last'.result = "Failed")
       => UNCHANGED <<venueBookings, resourceBookings, reqAllocated>>]_vars

\* C4: the Institutional Head's approval runs the allocation in the same
\* call: with a venue and all resources available the event ends the call
\* Approved, with its bookings created.
FinalApprovalAllocates ==
  [][\A e \in EventIds :
       (FinalStageApproval(e) /\ Feasible(DB, e))
         => /\ approvalStage'[e] = "APPROVED"
            /\ status'[e] = "APPROVED"
            /\ \E b \in Confirmed(venueBookings') : b.eventId = e
            /\ \A q \in RequestsOf(e) : reqAllocated'[q]]_vars

\* C5: a final-stage approval whose allocation fails leaves the stage as it
\* was, sets status Submitted, records one ModificationRequired step carrying
\* the allocation failure, and leaves no booking of the attempt.
FailedFinalApprovalIsDowngraded ==
  [][\A e \in EventIds :
       (FinalStageApproval(e) /\ ~Feasible(DB, e))
         => /\ approvalStage'[e] = approvalStage[e]
            /\ status'[e] = "SUBMITTED"
            /\ Len(approvalSteps'[e]) = Len(approvalSteps[e]) + 1
            /\ LastStep(approvalSteps'[e]).action = "MODIFICATION_REQUIRED"
            /\ LastStep(approvalSteps'[e]).comments
                 \in {AllocationFailedComment("Venue allocation failed"),
                      AllocationFailedComment("Resource allocation failed")}
            /\ UNCHANGED <<venueBookings, resourceBookings, reqAllocated>>]_vars

Chain ==
  <<"DRAFT", "SUBMITTED", "HOD_APPROVED", "DEAN_APPROVED", "HEAD_APPROVED", "APPROVED">>

\* C6: every change of an event's approvalStage is to the immediate successor
\* in the fixed chain, or to Rejected or ModificationRequired: no stage is
\* skipped and none is gone back to.
StageFollowsChain ==
  [][\A e \in EventIds :
       approvalStage'[e] # approvalStage[e]
         => \/ approvalStage'[e] \in {"REJECTED", "MODIFICATION_REQUIRED"}
            \/ \E i \in 1..(Len(Chain) - 1) :
                 approvalStage[e] = Chain[i] /\ approvalStage'[e] = Chain[i + 1]]_vars

\* C6 witness: an event has gone through the whole chain.
ChainCompleted ==
  \E e \in EventIds :
    /\ approvalStage[e] = "APPROVED"
    /\ Len(approvalSteps[e]) = Len(Chain) - 1

\* C7: once an event's approvalStage is Approved or Rejected, no call changes
\* its approvalStage or status.
TerminalStagesStay ==
  [][\A e \in EventIds :
       approvalStage[e] \in {"APPROVED", "REJECTED"}
         => approvalStage'[e] = approvalStage[e] /\ status'[e] = status[e]]_vars

\* C7 witness: a call was made on an event that was already Approved or
\* Rejected, and was refused.
CalledAfterTerminal ==
  /\ last.eventId \in EventIds
  /\ approvalStage[last.eventId] \in {"APPROVED", "REJECTED"}
  /\ last.result \in {"PermissionDenied", "NotDraft", "NotReady"}

\* C8: a ModificationRequired action leaves the event at ModificationRequired
\* with status Submitted, and from there the owning coordinator's
\* submitEventForApproval succeeds and puts the event back at Submitted.
ModificationRequiredCanBeResubmitted ==
  [][\A e \in EventIds :
       /\ (/\ last'.op = "processApproval"
           /\ last'.eventId = e
           /\ last'.action = "MODIFICATION_REQUIRED"
           /\ last'.result = "MODIFICATION_REQUIRED")
            => (approvalStage'[e] = "MODIFICATION_REQUIRED" /\ status'[e] = "SUBMITTED")
       /\ (/\ last'.op = "submitEventForApproval"
           /\ last'.eventId = e
           /\ last'.by = Events[e].coordinatorId
           /\ approvalStage[e] = "MODIFICATION_REQUIRED")
            => (last'.result = "SUBMITTED" /\ approvalStage'[e] = "SUBMITTED")]_vars

\* The table of required approvers, per stage awaiting approval.
MatchesTable(u, stage, e) ==
  \/ /\ stage = "SUBMITTED"
     /\ Users[u].role = "HOD"
     /\ Users[u].departmentId = Events[e].departmentId
  \/ /\ stage = "HOD_APPROVED"
     /\ Users[u].role = "DEAN"
     /\ Users[u].schoolId = Events[e].schoolId
  \/ /\ stage = "DEAN_APPROVED"
     /\ Users[u].role = "INSTITUTIONAL_HEAD"

\* C9: processApproval gets past its permission check exactly when the
\* approver matches the table for the event's current stage; for every other
\* role, scope and stage it returns PermissionDenied and makes no transition.
PermissionFollowsTable ==
  [][\A e \in EventIds :
       (last'.op = "processApproval" /\ last'.eventId = e /\ last'.by \in UserIds)
         => IF MatchesTable(last'.by, approvalStage[e], e)
            THEN last'.result # "PermissionDenied"
            ELSE /\ last'.result = "PermissionDenied"
                 /\ approvalStage'[e] = approvalStage[e]
                 /\ approvalSteps'[e] = approvalSteps[e]]_vars

\* C9 witness: a Dean of the event's school acted on an event still at
\* Submitted and was denied.
DeanDeniedAtSubmitted ==
  /\ last.op = "processApproval"
  /\ last.result = "PermissionDenied"
  /\ Users[last.by].role = "DEAN"
  /\ Users[last.by].schoolId = Events[last.eventId].schoolId
  /\ approvalStage[last.eventId] = "SUBMITTED"

\* C10: a processApproval call that fails leaves the events, the ApprovalStep
\* ledger, the bookings and the notifications unchanged.
FailedApprovalChangesNothing ==
  [][(last'.op = "processApproval"
        /\ last'.result \in {"NotFound", "PermissionDenied", "InvalidAction"})
       => UNCHANGED <<approvalStage, status, rejectionReason, approvalSteps,
                      venueBookings, resourceBookings, reqAllocated, notifications>>]_vars

\* C10 witness: a permitted approver's call failed on its action, on an event
\* that has a ledger and notifications to keep.
PermittedCallFailed ==
  /\ last.op = "processApproval"
  /\ last.result = "InvalidAction"
  /\ approvalSteps[last.eventId] # <<>>
  /\ notifications[last.eventId] # <<>>

\* C11: submitEventForApproval changes the event exactly when the caller is
\* the event's coordinator and the status is Draft, and then sets stage and
\* status to Submitted; any other call returns a failure and leaves the
\* event, the ApprovalStep ledger and the notifications as they were.
SubmissionOnlyByOwnerFromDraft ==
  [][last'.op = "submitEventForApproval"
       => IF /\ last'.eventId \in EventIds
             /\ last'.by = Events[last'.eventId].coordinatorId
             /\ status[last'.eventId] = "DRAFT"
          THEN /\ last'.result = "SUBMITTED"
               /\ approvalStage'[last'.eventId] = "SUBMITTED"
               /\ status'[last'.eventId] = "SUBMITTED"
          ELSE /\ last'.result \in {"NotFound", "Unauthorized", "NotDraft"}
               /\ UNCHANGED <<approvalStage, status, rejectionReason,
                              approvalSteps, notifications>>]_vars

\* C11 witness: someone other than the coordinator tried to submit an event
\* that is still a draft.
DraftSubmittedByStranger ==
  /\ last.op = "submitEventForApproval"
  /\ last.result = "Unauthorized"
  /\ status[last.eventId] = "DRAFT"

\* C12: in every reachable state each event's status agrees with its
\* approvalStage: Draft with Draft, Approved with Approved, Rejected with
\* Rejected, and every stage in between (ModificationRequired included) with
\* status Submitted.
StatusMatchesStage ==
  \A e \in EventIds :
    /\ approvalStage[e] = "DRAFT" <=> status[e] = "DRAFT"
    /\ approvalStage[e] = "APPROVED" <=> status[e] = "APPROVED"
    /\ approvalStage[e] = "REJECTED" <=> status[e] = "REJECTED"
    /\ approvalStage[e] \in {"SUBMITTED", "HOD_APPROVED", "DEAN_APPROVED",
                             "HEAD_APPROVED", "MODIFICATION_REQUIRED"}
         => status[e] = "SUBMITTED"

\* C12 witness: one event has been allocated and is Approved while another
\* has been sent back for modification.
ApprovedAndSentBack ==
  \E a, b \in EventIds :
    /\ approvalStage[a] = "APPROVED"
    /\ approvalStage[b] = "MODIFICATION_REQUIRED"

\* The Institutional Head's Approved step is in the event's ledger.
HeadApprovalCommitted(e) ==
  \E i \in DOMAIN approvalSteps[e] :
    /\ approvalSteps[e][i].approverId \in UserIds
    /\ Users[approvalSteps[e][i].approverId].role = "INSTITUTIONAL_HEAD"
    /\ approvalSteps[e][i].action = "APPROVED"

\* The allocation's effects are in the store: the event is Approved, the
\* system's step is in the ledger and the event has a confirmed venue.
AllocationCommitted(e) ==
  /\ approvalStage[e] = "APPROVED"
  /\ \E i \in DOMAIN approvalSteps[e] : approvalSteps[e][i] = SystemStep
  /\ \E b \in Confirmed(venueBookings) : b.eventId = e

\* C13: the approval that triggers the allocation and the allocation commit
\* or abort together: no reachable state holds the final approver's event
\* update and ApprovalStep without the allocation's effects, or the
\* allocation's effects without them.
FinalApprovalAtomicWithAllocation ==
  \A e \in EventIds : HeadApprovalCommitted(e) <=> AllocationCommitted(e)

\* C14: a failure while creating a notification never fails the operation
\* and never rolls back its transition: a submission by the coordinator of a
\* draft, and a valid action by the permitted approver, still report success
\* and still commit the event update and the ApprovalStep.
NotificationFailureIsHarmless ==
  [][\A e \in EventIds :
       /\ (/\ last'.op = "submitEventForApproval"
           /\ last'.eventId = e
           /\ last'.by = Events[e].coordinatorId
           /\ status[e] = "DRAFT")
            => /\ last'.result = "SUBMITTED"
               /\ approvalStage'[e] = "SUBMITTED"
               /\ Len(approvalSteps'[e]) = Len(approvalSteps[e]) + 1
       /\ (/\ last'.op = "processApproval"
           /\ last'.eventId = e
           /\ last'.by \in UserIds
           /\ MatchesTable(last'.by, approvalStage[e], e)
           /\ last'.action \in {"APPROVED", "REJECTED", "MODIFICATION_REQUIRED"})
            => /\ last'.result = approvalStage'[e]
               /\ approvalStage'[e] # approvalStage[e]
               /\ Len(approvalSteps'[e]) = Len(approvalSteps[e]) + 1]_vars

IsPrefix(s, t) == Len(s) <= Len(t) /\ SubSeq(t, 1, Len(s)) = s

\* C15: every successful submitEventForApproval or processApproval appends
\* exactly one ApprovalStep holding the stage reached, the action and the
\* actor, and no step is ever changed or removed: each event's ledger is a
\* prefix of its ledger in the next state.
LedgerIsAppendOnly ==
  [][\A e \in EventIds :
       /\ IsPrefix(approvalSteps[e], approvalSteps'[e])
       /\ (/\ last'.op \in {"submitEventForApproval", "processApproval"}
           /\ last'.eventId = e
           /\ last'.result \in ApprovalStages)
            => /\ Len(approvalSteps'[e]) = Len(approvalSteps[e]) + 1
               /\ LastStep(approvalSteps'[e]).stage = approvalStage'[e]
               /\ LastStep(approvalSteps'[e]).action = last'.action
               /\ LastStep(approvalSteps'[e]).approverId = last'.by]_vars

\* C15 witness: an approver's action was recorded on top of a ledger that
\* already held the submission and an earlier approval.
StepAddedToLedger ==
  /\ last.op = "processApproval"
  /\ last.result = "REJECTED"
  /\ Len(approvalSteps[last.eventId]) >= 3
  /\ LastStep(approvalSteps[last.eventId]).approverId = last.by

Window(b, e) ==
  b.startTime = Events[e].scheduleStart /\ b.endTime = Events[e].scheduleEnd

StrictlyOverlapping(rows, e) ==
  {b \in Confirmed(rows) :
     b.startTime < Events[e].scheduleEnd /\ Events[e].scheduleStart < b.endTime}

\* The venues the event may be given: active, not in maintenance, large
\* enough and of the preferred type when there is a preference.
Suitable(v, e) ==
  /\ Venues[v].isActive
  /\ ~Venues[v].maintenanceMode
  /\ Venues[v].capacity >= Events[e].participantCount
  /\ Events[e].venueTypePreference \in {NoPref, Venues[v].type}

SomeVenueFree(e) ==
  \E v \in VenueIds :
    /\ Suitable(v, e)
    /\ \A b \in StrictlyOverlapping(venueBookings, e) : b.venueId # v

RECURSIVE SumNeeded(_)
SumNeeded(S) ==
  IF S = {} THEN 0
  ELSE LET q == CHOOSE x \in S : TRUE
       IN  ResourceRequests[q].quantityNeeded + SumNeeded(S \ {q})

\* Taking the requests in turn, each finds its quantity available: for every
\* resource the event's requests together fit into what the confirmed
\* overlapping bookings leave of the total.
EveryRequestAvailable(e) ==
  \A r \in ResourceIds :
    SumNeeded({q \in RequestsOf(e) : ResourceRequests[q].resourceId = r})
      + SumQuantity({b \in StrictlyOverlapping(resourceBookings, e) : b.resourceId = r})
      <= Resources[r].totalQuantity

\* The bookings a successful allocateEvent adds: one confirmed VenueBooking
\* and one confirmed ResourceBooking per request, of the requested quantity,
\* over the event's window.
BookingsCreated(e) ==
  /\ venueBookings \subseteq venueBookings'
  /\ resourceBookings \subseteq resourceBookings'
  /\ Cardinality(venueBookings' \ venueBookings) = 1
  /\ \A b \in venueBookings' \ venueBookings :
       b.eventId = e /\ b.status = "confirmed" /\ Window(b, e)
  /\ Cardinality(resourceBookings' \ resourceBookings) = Cardinality(RequestsOf(e))
  /\ \A b \in resourceBookings' \ resourceBookings :
       b.eventId = e /\ b.status = "confirmed" /\ Window(b, e)
  /\ \A q \in RequestsOf(e) :
       /\ reqAllocated'[q]
       /\ \E b \in resourceBookings' \ resourceBookings :
            /\ b.resourceId = ResourceRequests[q].resourceId
            /\ b.quantity = ResourceRequests[q].quantityNeeded

\* C16: an allocateEvent that runs to its end (it is not aborted by a
\* serialization failure) succeeds exactly when some candidate venue has no
\* overlapping confirmed booking and every request of the event finds its
\* quantity available; on success the event's status and stage are Approved,
\* one confirmed VenueBooking and one confirmed ResourceBooking per request
\* (requested quantity, event's window) are created and one system-authored
\* ApprovalStep is appended.
AllocationSucceedsIffFeasible ==
  [][\A e \in EventIds :
       (/\ last'.op = "allocateEvent"
        /\ last'.eventId = e
        /\ last'.result \in {"Success", "Failed"})
         => /\ last'.result = "Success" <=> (SomeVenueFree(e) /\ EveryRequestAvailable(e))
            /\ last'.result = "Success"
                 => /\ approvalStage'[e] = "APPROVED"
                    /\ status'[e] = "APPROVED"
                    /\ BookingsCreated(e)
                    /\ Len(approvalSteps'[e]) = Len(approvalSteps[e]) + 1
                    /\ IsPrefix(approvalSteps[e], approvalSteps'[e])
                    /\ LastStep(approvalSteps'[e]).approverId = System
                    /\ LastStep(approvalSteps'[e]).stage = "APPROVED"]_vars

\* C16 witness: an allocation succeeded on a venue on which a provisional
\* hold for the same hours was still in place.
AllocatedOverProvisionalHold ==
  /\ last.op = "allocateEvent"
  /\ last.result = "Success"
  /\ \E b \in Confirmed(venueBookings), h \in venueBookings :
       /\ b.eventId = last.eventId
       /\ h.status = "provisional"
       /\ h.venueId = b.venueId
       /\ Overlaps(h, last.eventId)

\* The auto-release job has released the event's bookings.
Released(e) ==
  \E i \in DOMAIN auditLog :
    auditLog[i].action = "auto_release" /\ auditLog[i].eventId = e

HoldsVenueAndResources(e) ==
  /\ \E b \in Confirmed(venueBookings) : b.eventId = e /\ Window(b, e)
  /\ \A q \in RequestsOf(e) :
       /\ reqAllocated[q]
       /\ \E b \in Confirmed(resourceBookings) :
            /\ b.eventId = e
            /\ Window(b, e)
            /\ b.resourceId = ResourceRequests[q].resourceId
            /\ b.quantity = ResourceRequests[q].quantityNeeded
  /\ \A r \in ResourceIds :
       SumQuantity({b \in Confirmed(resourceBookings) : b.eventId = e /\ b.resourceId = r})
         >= SumNeeded({q \in RequestsOf(e) : ResourceRequests[q].resourceId = r})

\* C17: whenever an event's approvalStage is Approved and the release job has
\* not released it, the event holds a confirmed VenueBooking for its window
\* and each of its requests is marked allocated and has a confirmed
\* ResourceBooking of the requested quantity.
ApprovedHoldsItsAllocation ==
  \A e \in EventIds :
    (approvalStage[e] = "APPROVED" /\ ~Released(e)) => HoldsVenueAndResources(e)

\* C17 witness: an event is Approved and unreleased after a housekeeping job
\* has cancelled or removed other bookings.
ApprovedAfterHousekeeping ==
  /\ auditLog # <<>>
  /\ \E e \in EventIds : approvalStage[e] = "APPROVED" /\ ~Released(e)

\* C18: allocateEvent for a missing event fails with NotFound and for an
\* event whose approvalStage is not HeadApproved with NotReady (a transaction
\* that finds at its end that the event has left HeadApproved meanwhile is
\* aborted); none of them creates a booking, changes an event field or
\* appends an ApprovalStep.  So a second allocateEvent after a successful one
\* fails and adds nothing.
AllocationNeedsHeadApproval ==
  [][(/\ last'.op = "allocateEvent"
      /\ \/ last'.eventId \notin EventIds
         \/ approvalStage[last'.eventId] # "HEAD_APPROVED")
       => /\ last'.result = IF last'.eventId \notin EventIds THEN "NotFound"
                            ELSE IF txs' = txs THEN "NotReady"
                            ELSE "SerializationFailure"
          /\ UNCHANGED <<approvalStage, status, rejectionReason, approvalSteps,
                         notifications, venueBookings, resourceBookings,
                         reqAllocated, availableQuantity, auditLog>>]_vars

\* C18 witness: allocateEvent was called again for an event that an earlier
\* allocateEvent had already allocated.
AllocatedTwice ==
  /\ last.op = "allocateEvent"
  /\ last.result = "NotReady"
  /\ approvalStage[last.eventId] = "APPROVED"
  /\ \E b \in Confirmed(venueBookings) : b.eventId = last.eventId

\* The suitable venues that no confirmed booking occupies during the event's
\* window.
FreeSuitable(e) ==
  {v \in VenueIds :
     /\ Suitable(v, e)
     /\ \A b \in StrictlyOverlapping(venueBookings, e) : b.venueId # v}

SmallerThenByName(v, w) ==
  \/ Venues[v].capacity < Venues[w].capacity
  \/ Venues[v].capacity = Venues[w].capacity /\ Venues[v].name < Venues[w].name

\* C19: the venue allocateEvent books is suitable (active, not in
\* maintenance, capacity >= participantCount, of the preferred type if there
\* is a preference), free of confirmed bookings strictly overlapping the
\* event's window, and the first such venue in (capacity ascending, name
\* ascending) order.
SmallestFreeVenueBooked ==
  [][\A e \in EventIds :
       (last'.op = "allocateEvent" /\ last'.eventId = e)
         => \A b \in venueBookings' \ venueBookings :
              /\ b.venueId \in FreeSuitable(e)
              /\ \A w \in FreeSuitable(e) \ {b.venueId} : SmallerThenByName(b.venueId, w)]_vars

\* C19 witness: with the first venue in the order taken by the other event,
\* the venue of the same capacity and the next name was booked, a larger
\* venue being free as well.
NextByNameBooked ==
  /\ last.op = "allocateEvent"
  /\ \E a, b \in Confirmed(venueBookings) :
       /\ a.eventId # last.eventId
       /\ b.eventId = last.eventId
       /\ Overlaps(a, last.eventId)
       /\ Venues[a.venueId].capacity = Venues[b.venueId].capacity
       /\ Venues[a.venueId].name < Venues[b.venueId].name
       /\ \E w \in VenueIds :
            /\ Suitable(w, last.eventId)
            /\ Venues[w].capacity > Venues[b.venueId].capacity
            /\ \A c \in venueBookings : c.venueId # w

\* The booking's interval and the event's window only touch or lie apart.
Apart(b, e) ==
  b.endTime <= Events[e].scheduleStart \/ b.startTime >= Events[e].scheduleEnd

Blocking(rows, e) == {b \in Confirmed(rows) : ~Apart(b, e)}

RequestsFor(e, r) == {q \in RequestsOf(e) : ResourceRequests[q].resourceId = r}

\* C20: bookings conflict only on strict overlap of half-open intervals.  A
\* suitable venue whose confirmed bookings all end by the event's start or
\* begin at its end or later does not block the event, and the venue booked
\* has no other confirmed booking; a resource's bookings that merely touch
\* the window leave its quantity available, those that overlap it do not.
OnlyStrictOverlapConflicts ==
  [][\A e \in EventIds :
       (/\ last'.op = "allocateEvent"
        /\ last'.eventId = e
        /\ last'.result \in {"Success", "Failed"})
         => /\ (\E v \in VenueIds :
                  /\ Suitable(v, e)
                  /\ \A b \in Confirmed(venueBookings) : b.venueId = v => Apart(b, e))
                 <=> venueBookings' # venueBookings
            /\ \A n \in venueBookings' \ venueBookings :
                 \A b \in Blocking(venueBookings, e) : b.venueId # n.venueId
            /\ venueBookings' # venueBookings
                 => \A r \in ResourceIds :
                      (SumNeeded(RequestsFor(e, r))
                         + SumQuantity({b \in Blocking(resourceBookings, e) : b.resourceId = r})
                         <= Resources[r].totalQuantity)
                        <=> SumQuantity({n \in resourceBookings' \ resourceBookings :
                                           n.resourceId = r})
                              = SumNeeded(RequestsFor(e, r))]_vars

\* C20 witness: an event was allocated a venue that has a confirmed booking
\* beginning exactly when the event ends, or resources of which a confirmed
\* booking ends exactly when the event begins.
AllocatedNextToTouchingBooking ==
  /\ last.op = "allocateEvent"
  /\ last.result = "Success"
  /\ \/ \E a, b \in Confirmed(venueBookings) :
          /\ b.eventId = last.eventId
          /\ a.venueId = b.venueId
          /\ a.startTime = b.endTime
     \/ \E a, b \in Confirmed(resourceBookings) :
          /\ b.eventId = last.eventId
          /\ a.resourceId = b.resourceId
          /\ a.endTime = b.startTime
          /\ BookedAt(b.resourceId, b.startTime) = Resources[b.resourceId].totalQuantity

RequestAt(e, i) == ResourceRequests[Events[e].resourceRequests[i]]

\* The requests of the event are taken in turn: what the i-th finds available
\* is the total less the confirmed overlapping bookings of the store and less
\* what the earlier requests of the same resource were given.
RECURSIVE GivenBefore(_, _, _)
RECURSIVE AvailableAt(_, _)
AvailableAt(e, i) ==
  Resources[RequestAt(e, i).resourceId].totalQuantity
    - SumQuantity({b \in StrictlyOverlapping(resourceBookings, e) :
                     b.resourceId = RequestAt(e, i).resourceId})
    - GivenBefore(e, i, i - 1)

GivenBefore(e, i, j) ==
  IF j = 0 THEN 0
  ELSE GivenBefore(e, i, j - 1)
         + IF /\ RequestAt(e, j).resourceId = RequestAt(e, i).resourceId
              /\ AvailableAt(e, j) >= RequestAt(e, j).quantityNeeded
           THEN RequestAt(e, j).quantityNeeded
           ELSE 0

OverlappingEventIds(e, i) ==
  {b.eventId : b \in {x \in StrictlyOverlapping(resourceBookings, e) :
                        x.resourceId = RequestAt(e, i).resourceId}}
    \cup (IF GivenBefore(e, i, i - 1) > 0 THEN {e} ELSE {})

ShortageReported(e, i, conflicts) ==
  \E k \in DOMAIN conflicts :
    /\ conflicts[k].type = "resource_shortage"
    /\ conflicts[k].request = Events[e].resourceRequests[i]
    /\ conflicts[k].needed = RequestAt(e, i).quantityNeeded
    /\ conflicts[k].available = AvailableAt(e, i)
    /\ conflicts[k].conflictingEventIds = OverlappingEventIds(e, i)

\* C21: each request finds available the resource's totalQuantity less the
\* quantities of the confirmed bookings of the resource overlapping the
\* event's window; it is booked, for exactly the requested quantity, iff
\* available >= requested, and otherwise a resource_shortage conflict gives
\* the requested and the available numbers and the event ids of the
\* overlapping bookings.
RequestBookedIffAvailable ==
  [][\A e \in EventIds :
       (/\ last'.op = "allocateEvent"
        /\ last'.eventId = e
        /\ last'.result \in {"Success", "Failed"}
        /\ venueBookings' # venueBookings)
         => /\ Cardinality(resourceBookings' \ resourceBookings)
                 = Cardinality({i \in DOMAIN Events[e].resourceRequests :
                                  AvailableAt(e, i) >= RequestAt(e, i).quantityNeeded})
            /\ \A i \in DOMAIN Events[e].resourceRequests :
                 IF AvailableAt(e, i) >= RequestAt(e, i).quantityNeeded
                 THEN /\ \E n \in resourceBookings' \ resourceBookings :
                           /\ n.resourceId = RequestAt(e, i).resourceId
                           /\ n.quantity = RequestAt(e, i).quantityNeeded
                           /\ n.status = "confirmed"
                           /\ Window(n, e)
                      /\ reqAllocated'[Events[e].resourceRequests[i]]
                      /\ \A k \in DOMAIN last'.conflicts :
                           last'.conflicts[k].request # Events[e].resourceRequests[i]
                 ELSE ShortageReported(e, i, last'.conflicts)]_vars

\* C21 witness: with 2 of a resource's 3 units booked by the other event, a
\* request for 2 was refused with "need 2, only 1 available" and the other
\* event's id.
ShortageWithNumbers ==
  /\ last.op = "allocateEvent"
  /\ last.result = "Failed"
  /\ \E k \in DOMAIN last.conflicts :
       /\ last.conflicts[k].type = "resource_shortage"
       /\ last.conflicts[k].needed = 2
       /\ last.conflicts[k].available = 1
       /\ last.conflicts[k].conflictingEventIds # {}
       /\ last.eventId \notin last.conflicts[k].conflictingEventIds

\* C22: a call of checkAllocationFeasibility writes nothing, whatever the
\* event's stage, and calling it again on the store it left returns the
\* same result and the same conflicts.
FeasibilityCheckWritesNothing ==
  [][last'.op = "checkAllocationFeasibility" =>
       /\ UNCHANGED <<approvalStage, status, rejectionReason, approvalSteps, notifications,
                      venueBookings, resourceBookings, reqAllocated, availableQuantity,
                      auditLog>>
       /\ CheckAllocationFeasibilityCall(DB', last'.eventId).error
            = CheckAllocationFeasibilityCall(DB, last'.eventId).error
       /\ CheckAllocationFeasibilityCall(DB', last'.eventId).success
            = CheckAllocationFeasibilityCall(DB, last'.eventId).success
       /\ CheckAllocationFeasibilityCall(DB', last'.eventId).conflicts = last'.conflicts
       /\ (last.op = "checkAllocationFeasibility" /\ last.eventId = last'.eventId
             => last' = last)]_vars

InfeasibleBeforeApproval ==
  /\ last.op = "checkAllocationFeasibility"
  /\ last.result = "Infeasible"
  /\ last.conflicts # <<>>
  /\ approvalStage[last.eventId] \in {"DRAFT", "SUBMITTED", "HOD_APPROVED"}
  /\ venueBookings # {}

\* C23: for every event at HEAD_APPROVED, the feasibility check on the store
\* reports success exactly when allocateEvent on the same store succeeds.
FeasibilityAgreesWithAllocation ==
  \A e \in EventIds :
    approvalStage[e] = "HEAD_APPROVED" =>
      (CheckAllocationFeasibilityCall(DB, e).success <=> AllocateEvent(DB, e).success)

\* C24: the release of an ended event's resources is idempotent: running it
\* a second time leaves the bookings, the resource quantities and the audit
\* trail as the first run left them.
ReleaseIsIdempotent ==
  \A e \in EventIds :
    ReleaseDue(DB, e, now) =>
      ProcessAutoResourceRelease(ProcessAutoResourceRelease(DB, e, now), e, now)
        = ProcessAutoResourceRelease(DB, e, now)

\* C25: the conflicts of a failed allocateEvent are complete: exactly one
\* resource_shortage conflict for every request of the event that exceeds
\* what is available, and the venue conflict when no venue could be given.
FailedAllocationListsEveryConflict ==
  [][\A e \in EventIds :
       (/\ last'.op = "allocateEvent"
        /\ last'.eventId = e
        /\ last'.result = "Failed")
         => /\ \A i \in DOMAIN Events[e].resourceRequests :
                 AvailableAt(e, i) < RequestAt(e, i).quantityNeeded =>
                   Cardinality({k \in DOMAIN last'.conflicts :
                                  /\ last'.conflicts[k].type = "resource_shortage"
                                  /\ last'.conflicts[k].request
                                       = Events[e].resourceRequests[i]}) = 1
            /\ ~SomeVenueFree(e) =>
                 \E k \in DOMAIN last'.conflicts :
                   last'.conflicts[k].type = "venue_unavailable"]_vars

\* The event ids of the confirmed bookings that strictly overlap the event's
\* window on a venue the event may be given.
BlockingEventIds(e) ==
  {b.eventId : b \in {x \in StrictlyOverlapping(venueBookings, e) : Suitable(x.venueId, e)}}

\* C26: when allocateEvent fails for want of a venue its only conflict is of
\* kind venue_unavailable and lists exactly the event ids of the confirmed
\* bookings strictly overlapping the event's window on a candidate venue:
\* none when there is no candidate, and at least one for every candidate
\* when all of them are booked.
VenueConflictListsBlockingEvents ==
  [][\A e \in EventIds :
       (/\ last'.op = "allocateEvent"
        /\ last'.eventId = e
        /\ last'.result = "Failed"
        /\ ~SomeVenueFree(e))
         => /\ last'.conflicts =
                 <<[type |-> "venue_unavailable", conflictingEventIds |-> BlockingEventIds(e)]>>
            /\ (\A v \in VenueIds : ~Suitable(v, e))
                 => last'.conflicts[1].conflictingEventIds = {}
            /\ \A v \in VenueIds :
                 Suitable(v, e) =>
                   \E b \in StrictlyOverlapping(venueBookings, e) :
                     /\ b.venueId = v
                     /\ b.eventId \in last'.conflicts[1].conflictingEventIds]_vars

\* C26 witness: e2 was refused a venue with both halls booked, one by each
\* of two events, and both events are listed.
BothHallsBooked ==
  /\ last.op = "allocateEvent"
  /\ last.eventId = "e2"
  /\ last.result = "Failed"
  /\ last.conflicts = <<[type |-> "venue_unavailable", conflictingEventIds |-> {"e1", "e2"}]>>
  /\ \E a, b \in Confirmed(venueBookings) :
       a.venueId = "v1" /\ a.eventId = "e1" /\ b.venueId = "v3" /\ b.eventId = "e2"

\* C27: processApproval calls running at once take effect one after the
\* other: a call records its ApprovalStep and moves the event only if its
\* approver is permitted at the stage the event has when the call commits,
\* so of two calls begun at the same stage one commits and the other is
\* refused, and a stage written as REJECTED is not overwritten.
ConcurrentApprovalsTakeEffectInTurn ==
  [][\A e \in EventIds :
       /\ approvalSteps'[e] # approvalSteps[e]
            => /\ Len(approvalSteps'[e]) = Len(approvalSteps[e]) + 1
               /\ CanApprove(DB, LastStep(approvalSteps'[e]).approverId, e)
       /\ approvalStage'[e] # approvalStage[e] => approvalSteps'[e] # approvalSteps[e]
       /\ approvalStage[e] = "REJECTED" => approvalStage'[e] = "REJECTED"]_vars

\* The users to be told that the event awaits them at the stage: the active
\* Deans of the event's school at HOD_APPROVED, the active Institutional
\* Heads at DEAN_APPROVED, nobody at the other stages.
AwaitedApprovers(e, stage) ==
  {u \in UserIds :
     /\ Users[u].isActive
     /\ \/ /\ stage = "HOD_APPROVED"
           /\ Users[u].role = "DEAN"
           /\ Users[u].schoolId = Events[e].schoolId
        \/ /\ stage = "DEAN_APPROVED"
           /\ Users[u].role = "INSTITUTIONAL_HEAD"}

Recipients(rows) == {rows[i].userId : i \in DOMAIN rows}

\* C28: a processApproval that records a step notifies the coordinator and,
\* when the action is APPROVED, exactly the active users holding the role
\* required at the new stage within the event's scope, each once; inactive
\* users and users out of scope are not notified, and REJECTED and
\* MODIFICATION_REQUIRED notify the coordinator alone.
ApprovalNotifiesCoordinatorAndNextApprovers ==
  [][\A e \in EventIds :
       (/\ last'.op = "processApproval"
        /\ last'.eventId = e
        /\ approvalSteps'[e] # approvalSteps[e])
         => /\ Recipients(Appended(notifications[e], notifications'[e]))
                 = {Events[e].coordinatorId}
                     \cup (IF LastStep(approvalSteps'[e]).action = "APPROVED"
                           THEN AwaitedApprovers(e, approvalStage'[e])
                           ELSE {})
            /\ Len(Appended(notifications[e], notifications'[e]))
                 = Cardinality(Recipients(Appended(notifications[e], notifications'[e])))
            /\ \A f \in EventIds \ {e} : notifications'[f] = notifications[f]]_vars

\* C28 witness: the HOD approved e1 and, of the three Deans, the active Dean
\* of the event's school was notified with the coordinator; the inactive
\* Dean of the school and the Dean of the other school were not.
ActiveDeanOfSchoolNotified ==
  /\ last.op = "processApproval"
  /\ last.eventId = "e1"
  /\ last.result = "HOD_APPROVED"
  /\ Len(notifications["e1"]) >= 2
  /\ Recipients(SubSeq(notifications["e1"], Len(notifications["e1"]) - 1,
                       Len(notifications["e1"]))) = {"c1", "n1"}
  /\ \E u, w \in UserIds \ {"n1"} :
       /\ Users[u].role = "DEAN" /\ Users[u].schoolId = Events["e1"].schoolId
       /\ ~Users[u].isActive
       /\ Users[w].role = "DEAN" /\ Users[w].schoolId # Events["e1"].schoolId

\* C29: a processApproval that records REJECTED leaves the event with
\* approvalStage REJECTED, status REJECTED and the call's comments as
\* rejectionReason; one that records another action leaves rejectionReason
\* empty; and rejectionReason is set only while the event is REJECTED.
RejectionReasonOnlyWhenRejected ==
  [][\A e \in EventIds :
       /\ (/\ last'.op = "processApproval"
           /\ last'.eventId = e
           /\ approvalSteps'[e] # approvalSteps[e])
            => IF last'.action = "REJECTED"
               THEN /\ approvalStage[e] \in {"SUBMITTED", "HOD_APPROVED", "DEAN_APPROVED"}
                    /\ approvalStage'[e] = "REJECTED"
                    /\ status'[e] = "REJECTED"
                    /\ rejectionReason'[e] = LastStep(approvalSteps'[e]).comments
                    /\ rejectionReason'[e] \in CommentInputs
               ELSE rejectionReason'[e] = Null
       /\ rejectionReason'[e] # Null => approvalStage'[e] = "REJECTED"]_vars

\* C29 witness: the Dean-approved event e1 was rejected by the Institutional
\* Head and carries the comments as its reason.
RejectedAfterDeanApproval ==
  /\ last.op = "processApproval"
  /\ last.eventId = "e1"
  /\ last.action = "REJECTED"
  /\ last.by = "ih"
  /\ approvalStage["e1"] = "REJECTED"
  /\ status["e1"] = "REJECTED"
  /\ rejectionReason["e1"] = "text"
  /\ \E i \in DOMAIN approvalSteps["e1"] : approvalSteps["e1"][i].stage = "DEAN_APPROVED"

\* C30: whatever allocateEvent attempts were made for it, an event holds at
\* most one confirmed VenueBooking and, for every resource, at most as many
\* confirmed ResourceBookings as it has requests for the resource.
OneConfirmedBookingPerRequest ==
  \A e \in EventIds :
    /\ Cardinality({b \in Confirmed(venueBookings) : b.eventId = e}) <= 1
    /\ \A r \in ResourceIds :
         Cardinality({b \in Confirmed(resourceBookings) : b.eventId = e /\ b.resourceId = r})
           <= Cardinality({q \in RequestsOf(e) : ResourceRequests[q].resourceId = r})

\* The provisional bookings created before the cutoff.
BeforeCutoff(rows) ==
  {b \in rows : b.status = "provisional" /\ b.createdAt < now - StaleAfter}

\* C31: the cleanup deletes exactly the provisional venue and resource
\* bookings created before the cutoff and leaves every confirmed booking as
\* it was; with nothing stale it deletes nothing, changes no quantity and
\* adds no audit entry.
CleanupDeletesExactlyStaleProvisional ==
  [][last'.op = "cleanupStaleAllocations" =>
       /\ venueBookings' = venueBookings \ BeforeCutoff(venueBookings)
       /\ resourceBookings' = resourceBookings \ BeforeCutoff(resourceBookings)
       /\ Confirmed(venueBookings') = Confirmed(venueBookings)
       /\ Confirmed(resourceBookings') = Confirmed(resourceBookings)
       /\ (BeforeCutoff(venueBookings) = {} /\ BeforeCutoff(resourceBookings) = {})
            => UNCHANGED <<venueBookings, resourceBookings, availableQuantity, auditLog>>]_vars

\* C31 witness: the cleanup has removed the provisional holds, recorded it
\* once, and the confirmed bookings are still there.
StaleHoldsCleanedUp ==
  /\ last.op = "cleanupStaleAllocations"
  /\ \E i \in DOMAIN auditLog : auditLog[i].action = "cleanup_stale"
  /\ \A b \in venueBookings \cup resourceBookings : b.status # "provisional"
  /\ Confirmed(venueBookings) # {}
  /\ Confirmed(resourceBookings) # {}

Ended(e) == Events[e].scheduleEnd <= now \/ status[e] = "COMPLETED"

CancelledOf(rows, e) == {b \in rows : b.eventId = e /\ b.status = "cancelled"}

\* C32: the release job changes the store only for an event that has ended
\* or is COMPLETED, and then every booking of the event is cancelled; a
\* later allocateEvent is not held up by the cancelled bookings: it names no
\* event in a conflict whose overlapping bookings are all cancelled.
ReleaseOnlyAfterEndAndFreesBookings ==
  [][/\ \A e \in EventIds :
          (last'.op = "autoResourceRelease" /\ last'.eventId = e)
            => IF Ended(e)
               THEN /\ \A b \in venueBookings' \cup resourceBookings' :
                         b.eventId = e => b.status = "cancelled"
                    /\ {b \in venueBookings' : b.eventId # e}
                         = {b \in venueBookings : b.eventId # e}
                    /\ {b \in resourceBookings' : b.eventId # e}
                         = {b \in resourceBookings : b.eventId # e}
               ELSE UNCHANGED <<approvalStage, status, rejectionReason, approvalSteps,
                                notifications, venueBookings, resourceBookings,
                                reqAllocated, availableQuantity, auditLog>>
     /\ (last'.op = "allocateEvent" /\ last'.result \in {"Success", "Failed"})
          => \A k \in DOMAIN last'.conflicts :
               \A f \in last'.conflicts[k].conflictingEventIds :
                 \E b \in Confirmed(venueBookings \cup resourceBookings) : b.eventId = f]_vars

\* C32 witness: after e1 was released, e2 was allocated the venue on which
\* e1's cancelled booking overlaps e2's window.
AllocatedOverCancelledBooking ==
  /\ last.op = "allocateEvent"
  /\ last.eventId = "e2"
  /\ last.result = "Success"
  /\ \E c \in CancelledOf(venueBookings, "e1"), b \in Confirmed(venueBookings) :
       /\ b.eventId = "e2"
       /\ b.venueId = c.venueId
       /\ c.startTime < b.endTime /\ b.startTime < c.endTime
  /\ CancelledOf(resourceBookings, "e1") # {}

\* C33: after any allocations, releases and cleanups every resource's stored
\* availableQuantity lies within 0..totalQuantity.
AvailableQuantityWithinTotal ==
  \A r \in ResourceIds :
    availableQuantity[r] >= 0 /\ availableQuantity[r] <= Resources[r].totalQuantity

\* ------------------------------------------------- background job actions
dbVars == <<approvalStage, status, rejectionReason, approvalSteps, notifications,
            venueBookings, resourceBookings, reqAllocated, availableQuantity, auditLog>>

\* processPendingJobs: the query; the loop is the steps of the run.
ProcessPendingJobs(w) ==
  /\ workers[w].pc = "idle"
  /\ \E q \in PendingJobs(jobs, now) :
       workers' = [workers EXCEPT ![w] =
                     IF q = <<>> THEN Idle
                     ELSE [pc |-> "start", run |-> "processPendingJobs", queue |-> q,
                           job |-> NoJob]]
  /\ last' = NoCall("processPendingJobs")
  /\ UNCHANGED <<dbVars, now, txs, jobs, rateLimitMap>>

\* processJob(jobId) called on its own.
ProcessJob(w, j) ==
  /\ workers[w].pc = "idle"
  /\ jobs[j].executions < MaxExecutions
  /\ workers' = [workers EXCEPT ![w] =
                   [pc |-> "start", run |-> "processJob", queue |-> <<j>>, job |-> NoJob]]
  /\ last' = NoCall("processJob")
  /\ UNCHANGED <<dbVars, now, txs, jobs, rateLimitMap>>

\* processJob: findUnique, return when there is no such job, else mark the job
\* PROCESSING.
ProcessJobBegin(w) ==
  /\ workers[w].pc = "start"
  /\ LET j == Head(workers[w].queue)
     IN  IF jobs[j].status = "NONE"
           THEN /\ workers' = [workers EXCEPT ![w] = NextInQueue(workers[w])]
                /\ UNCHANGED jobs
           ELSE /\ workers' = [workers EXCEPT ![w].pc = "run", ![w].job = jobs[j]]
                /\ jobs' = [jobs EXCEPT ![j].status = "PROCESSING"]
  /\ last' = NoCall("processJob")
  /\ UNCHANGED <<dbVars, now, txs, rateLimitMap>>

\* processJob: the handler runs; the job is marked COMPLETED, or the catch
\* block records the failure.
ProcessJobRun(w, fails) ==
  /\ workers[w].pc = "run"
  /\ LET j == Head(workers[w].queue)
         ran == [jobs EXCEPT ![j].executions = @ + 1]
     IN  IF HandlerThrows(workers[w].job.type, fails)
           THEN /\ jobs' = RecordFailure(ran, j, workers[w].job)
                /\ workers' = [workers EXCEPT ![w].pc = "caught"]
           ELSE /\ jobs' = [ran EXCEPT ![j].status = "COMPLETED"]
                /\ workers' = [workers EXCEPT ![w] = NextInQueue(workers[w])]
  /\ last' = NoCall("processJob")
  /\ UNCHANGED <<dbVars, now, txs, rateLimitMap>>

\* processJob: the end of the catch block.
ProcessJobReschedule(w) ==
  /\ workers[w].pc = "caught"
  /\ LET j == Head(workers[w].queue)
     IN  jobs' = IF ShouldReschedule(workers[w].job)
                   THEN RescheduleJob(jobs, j, workers[w].job, now)
                   ELSE jobs
  /\ workers' = [workers EXCEPT ![w] = NextInQueue(workers[w])]
  /\ last' = NoCall("processJob")
  /\ UNCHANGED <<dbVars, now, txs, rateLimitMap>>

\* Time passes, up to MaxTime and then as far as the latest scheduled retry.
JobTick ==
  /\ \/ now < MaxTime
     \/ \E j \in JobIds : jobs[j].status = "PENDING" /\ jobs[j].scheduledFor > now
  /\ now' = now + 1
  /\ last' = NoCall("tick")
  /\ UNCHANGED <<dbVars, txs, serviceVars>>

ScheduleInputs == JobTypes \X {0, 1} \X MaxAttemptsInputs

WorkerSteps(w) ==
  \/ ProcessJobBegin(w)
  \/ \E fails \in BOOLEAN : ProcessJobRun(w, fails)
  \/ ProcessJobReschedule(w)

\* One job has been scheduled.
InitJobsConcurrent ==
  /\ Holds(InitialStore)
  /\ \E i \in ScheduleInputs : jobs = ScheduleJobCall(NoJobs, FreshJobId(NoJobs), i[1], i[2], i[3])
  /\ ServicesIdle
  /\ now = 0
  /\ txs = [t \in TxIds |-> NoTx]
  /\ last = NoCall("init")

\* Overlapping runs of processPendingJobs, and direct calls of processJob.
NextJobsConcurrent ==
  \/ \E w \in WorkerIds : ProcessPendingJobs(w)
  \/ \E j \in JobIds : ProcessJob("w2", j)
  \/ \E w \in WorkerIds : WorkerSteps(w)
  \/ JobTick

SpecJobsConcurrent == InitJobsConcurrent /\ [][NextJobsConcurrent]_vars

\* ------------------------------------------------------------------- C34
\* The job a run has in hand.
InHand(w) == Head(workers[w].queue)

\* C34: a job's handler is attempted at most maxAttempts times and its attempts
\* counter never exceeds maxAttempts; when a failed attempt is over the job is
\* PENDING with a scheduledFor later than now if attempts < maxAttempts and
\* FAILED if attempts = maxAttempts; and a run of processPendingJobs never
\* starts on a job that is COMPLETED or FAILED or scheduled for later than now.
HandlerAttemptedAtMostMaxAttempts ==
  [][/\ \A j \in JobIds :
          /\ jobs'[j].attempts <= jobs'[j].maxAttempts
          /\ jobs'[j].executions <= jobs'[j].maxAttempts
     /\ \A w \in WorkerIds :
          /\ workers[w].pc = "caught" /\ workers'[w].pc # "caught"
               => LET after == jobs'[InHand(w)]
                  IN  IF after.attempts < after.maxAttempts
                        THEN after.status = "PENDING" /\ after.scheduledFor > now
                        ELSE after.attempts = after.maxAttempts /\ after.status = "FAILED"
          /\ workers[w].run = "processPendingJobs" /\ workers[w].pc = "start"
               /\ workers'[w].pc = "run"
               => /\ workers'[w].job.status \notin {"COMPLETED", "FAILED"}
                  /\ workers'[w].job.scheduledFor <= now]_vars

\* ------------------------------------------------------------------- C36
\* The runs that have started on job j and have not finished with it.
Holding(j) == {w \in WorkerIds : workers[w].pc \in {"run", "caught"} /\ InHand(w) = j}

\* C36: when runs overlap, a job is in the hands of at most one run, its handler
\* has run once for each scheduled attempt (once for every counted failure,
\* and once more if it completed), and its status reflects every execution: a
\* job that is not being processed is COMPLETED exactly if its last execution
\* succeeded.
EachDueJobClaimedByOneRun ==
  \A j \in JobIds :
    /\ Cardinality(Holding(j)) <= 1
    /\ jobs[j].executions <= jobs[j].attempts + 1
    /\ Holding(j) = {} /\ jobs[j].status # "PROCESSING"
         => (jobs[j].status = "COMPLETED") = (jobs[j].executions = jobs[j].attempts + 1)

\* ------------------------------------------------------------------- C35
\* Runs of processPendingJobs, overlapping or not, that keep being started and
\* keep taking their steps while time advances.
NextJobsFair ==
  \/ \E w \in WorkerIds : ProcessPendingJobs(w)
  \/ \E w \in WorkerIds : WorkerSteps(w)
  \/ JobTick

FairJobs ==
  /\ WF_vars(JobTick)
  /\ \A w \in WorkerIds : WF_vars(ProcessPendingJobs(w)) /\ WF_vars(WorkerSteps(w))

SpecJobsFair == InitJobsConcurrent /\ [][NextJobsFair]_vars /\ FairJobs

\* C35: every scheduled job eventually reaches COMPLETED or FAILED: no job stays
\* PENDING, PROCESSING or RETRYING forever, whatever its handler does.
EveryJobEventuallyFinishes ==
  \A j \in JobIds :
    (jobs[j].status \in {"PENDING", "PROCESSING", "RETRYING"})
      ~> (jobs[j].status \in {"COMPLETED", "FAILED"})

\* A job has completed after a failed attempt, and another has failed for good.
CompletedAfterRetry ==
  \E j \in JobIds : jobs[j].status = "COMPLETED" /\ jobs[j].attempts > 0 /\ now > 0

\* --------------------------------------------------- pending approvals
\* orderBy createdAt asc: the events in the order they were created.
EventsByCreatedAt == <<"e1", "e2", "e4">>

\* The where clause of getPendingApprovals without the scope of the user.
PendingWhereAnyScope(db, user, e) ==
  /\ db.status[e] = "SUBMITTED"
  /\ CASE user.role = "HOD" -> db.approvalStage[e] = "SUBMITTED"
       [] user.role = "DEAN" -> db.approvalStage[e] = "HOD_APPROVED"
       [] user.role = "INSTITUTIONAL_HEAD" -> db.approvalStage[e] = "DEAN_APPROVED"
       [] OTHER -> FALSE

\* The where clause getPendingApprovals builds for the user.
PendingWhere(db, user, e) ==
  /\ db.status[e] = "SUBMITTED"
  /\ CASE user.role = "HOD" ->
            db.approvalStage[e] = "SUBMITTED" /\ Events[e].departmentId = user.departmentId
       [] user.role = "DEAN" ->
            db.approvalStage[e] = "HOD_APPROVED" /\ Events[e].schoolId = user.schoolId
       [] user.role = "INSTITUTIONAL_HEAD" -> db.approvalStage[e] = "DEAN_APPROVED"
       [] OTHER -> FALSE

\* getPendingApprovals(userId): throws for an unknown user, else the events
\* matching the where clause.
GetPendingApprovalsCall(db, userId) ==
  IF userId \notin UserIds
    THEN [result |-> "UserNotFound", events |-> <<>>]
    ELSE LET Matches(e) == PendingWhere(db, Users[userId], e)
         IN  [result |-> "Ok", events |-> SelectSeq(EventsByCreatedAt, Matches)]

GetPendingApprovals(userId) ==
  /\ last' = [op |-> "getPendingApprovals", eventId |-> NoEvent, by |-> userId,
              action |-> Null, result |-> GetPendingApprovalsCall(DB, userId).result,
              conflicts |-> <<>>, events |-> GetPendingApprovalsCall(DB, userId).events]
  /\ UNCHANGED <<dbVars, now, txs, serviceVars>>

\* The approval workflow, the allocation and the approvers' pending lists.
NextPending ==
  \/ \E in \in SubmitInputs : SubmitEventForApproval(in[1], in[2])
  \/ \E in \in ApprovalInputs, act \in ApprovalActions, c \in CommentInputs :
        ProcessApproval(in[1], act, c, in[2])
  \/ \E u \in UserIds \cup {Ghost} : GetPendingApprovals(u)
  \/ \E e \in RequestedEvents : AllocateEventBegin("t1", e)
  \/ AllocateEventEnd("t1")

SpecPending == Init /\ [][NextPending]_vars

\* ------------------------------------------------------------------- C37
ApproverRoles == {"HOD", "DEAN", "INSTITUTIONAL_HEAD"}

\* C37: the events getPendingApprovals returns to a user with an approver role
\* are exactly the events on which processApproval by that user passes the
\* permission check.
PendingApprovalsAreTheApprovableEvents ==
  last.op = "getPendingApprovals" /\ last.result = "Ok"
      /\ Users[last.by].role \in ApproverRoles
    => {last.events[i] : i \in 1..Len(last.events)}
         = {e \in EventIds : CanApprove(DB, last.by, e)}

\* The Dean of the event's school is shown an event the HOD approved, which
\* the Dean of another school could not approve.
DeanShownEventOfOwnSchool ==
  /\ last.op = "getPendingApprovals" /\ last.by = "n1"
  /\ last.events # <<>>
  /\ \E e \in EventIds : approvalStage[e] = "HOD_APPROVED" /\ ~CanApprove(DB, "n2", e)

\* ------------------------------------------------------- rate limiter actions
\* middleware(request), as far as the rate limiter goes.
Middleware(ip) ==
  /\ rateLimitMap' = RateLimit(rateLimitMap, ClientIP(ip), now).map
  /\ last' = Call("middleware", NoEvent, ClientIP(ip), Null,
                  RateLimit(rateLimitMap, ClientIP(ip), now).result, <<>>)
  /\ UNCHANGED <<dbVars, now, txs, jobs, workers>>

\* The requests served: one address goes up to MaxOver requests over the
\* limit, the clients without an address send up to MaxOver requests.
RequestInputs ==
  {ip \in RequestIps :
     rateLimitMap[ClientIP(ip)].count < (IF ip = Null THEN 0 ELSE maxRequests) + MaxOver}

NextRateLimit ==
  \/ \E ip \in RequestInputs : Middleware(ip)
  \/ Tick

SpecRateLimit == Init /\ [][NextRateLimit]_vars

\* ------------------------------------------------------------------- C38
\* C38: within one window a client's requests are counted one by one, the
\* first 100 are let through and every further one is answered with 429; the
\* first request after the reset time starts a new window with count 1; and a
\* request changes no other client's count.
RateLimiterAllowsHundredPerWindow ==
  [][last'.op = "middleware" =>
       LET c == last'.by
           before == rateLimitMap[c]
           after == rateLimitMap'[c]
       IN  /\ \A d \in ClientIds \ {c} : rateLimitMap'[d] = rateLimitMap[d]
           /\ IF before.count > 0 /\ now <= before.resetTime
                THEN /\ after.resetTime = before.resetTime
                     /\ after.count = before.count + 1
                     /\ (last'.result = "429") = (after.count > 100)
                ELSE /\ after.count = 1
                     /\ after.resetTime = now + windowMs
                     /\ last'.result # "429"]_vars

\* A client is over the limit and refused while another client, with a count
\* of its own, is served.
RefusedWhileOtherClientServed ==
  /\ last.op = "middleware" /\ last.result = "Next" /\ last.by = "anonymous"
  /\ rateLimitMap["a1"].count > maxRequests
  /\ rateLimitMap["anonymous"].count = 1 /\ now > windowMs

====
